---- MODULE Spec2Model ----
(***************************************************************************)
(* Messages Sync Helper (julianh2o/outreach, messages_sync_helper).        *)
(*                                                                         *)
(* The module holds several state machines over one set of variables:      *)
(*   SpecWorker   the DatabaseWorker class (db_worker.py): its worker      *)
(*                threads, its request queue and the threads that call     *)
(*                its public methods;                                      *)
(*   Spec         the application (main.py, sync_client.py): the driver's  *)
(*                connect / disconnect / change handlers, the Sync         *)
(*                Client's run loop and the coroutines on the event loop;  *)
(*   SpecWatcher  the file watcher's debounce (watcher.py);                *)
(*   SpecClient   SyncClient.send_attachment_data;                         *)
(*   SpecHistory  a history request from its arrival to the end of the     *)
(*                response stream;                                         *)
(*   SpecInbound  the dispatch of the payloads the Sync Client receives;   *)
(*   SpecReader   the reads of MessagesDatabase (messages_db.py);          *)
(*   SpecExtract  the text extraction from attributedBody;                 *)
(*   SpecOverlap  a second history request arriving while the response to  *)
(*                the first is still being streamed.                       *)
(* SpecLive, SpecWorkerLive and SpecHandlerLive are Spec, SpecWorker and   *)
(* the watcher's handler under the fairness their scheduling gives.        *)
(***************************************************************************)
EXTENDS Integers, Sequences, FiniteSets, TLC

(***************************************************************************)
(* Bounds of the model.                                                    *)
(***************************************************************************)
MaxRowid == 2
MaxThreads == 2
MaxQueue == 1
MaxTasks == 2
MaxFails == 7
MaxTime == 5
MaxCalls == 3
MaxChats == 2
MaxBlob == 5

(***************************************************************************)
(* Program constants.                                                      *)
(***************************************************************************)
CHANGE_FETCH_LIMIT == 50
INITIAL_RECONNECT_DELAY == 1
MAX_RECONNECT_DELAY == 30
(* debounce_seconds = 0.1, in clock ticks of 50 ms *)
DEBOUNCE_TICKS == 2

VARIABLES
  (* the local store: the set of rowids of table message *)
  store,
  (* DatabaseWorker fields *)
  running,              \* self._running
  history_in_progress,  \* self._history_in_progress
  request_queue,        \* self._request_queue
  thread,               \* self._thread: a thread id, 0 for None
  db,                   \* self._db: id of the thread that opened it, 0 for None
  (* worker threads (executions of DatabaseWorker._run) *)
  wpc,                  \* position of each thread in _run / _process_request
  wreq,                 \* the local variable request
  wres,                 \* the local variable result
  (* callers of the worker's public methods *)
  cpc,                  \* the thread calling start() / stop()
  spc,                  \* each submitting thread's position in _request_history
  sreq,                 \* the DbRequest a submitter is about to put
  sret,                 \* the value the last request_* call returned
  wown,                 \* per thread: what the store query of its request produced,
                        \* whether a submission was rejected while it was outstanding,
                        \* and whether the query raised
  rejected,             \* a submission was rejected since the flag was last set
  (* Config (config.py) *)
  cursor,               \* config.last_message_rowid
  saved,                \* last_message_rowid in the saved config file
  base,                 \* the cursor as first initialised by _do_connect
  (* MessagesSyncHelperApp fields (main.py) *)
  app_connected,        \* self._connected
  maindb,               \* self.db holds an open connection
  app_loop,             \* self._loop: "none", or an event loop, "live" or "dead"
  watcher,              \* self.watcher: "none", or the loop its handler was given
  (* SyncClient fields (sync_client.py) *)
  sc_connected,         \* self._connected
  sc_running,           \* self._running
  ws,                   \* self._ws: "none", "open", "closed_ok", "closed_err"
  reconnect_delay,      \* self._reconnect_delay
  rpc,                  \* position of the event-loop thread in SyncClient.run
  tasks,                \* coroutines scheduled on the event loop, not yet run
  (* observations *)
  fails,                \* failed connect attempts since the last successful one
  sent,                 \* rowids sent on the channel in new_messages envelopes
  push,                 \* the last send_messages call: what it returned and the
                        \* envelopes it sent on the channel
  start_ret,            \* the last start() call of the worker's caller: what it
                        \* returned; seq tells one call from the next
  (* MessagesDBEventHandler (watcher.py) with its clock *)
  now,                  \* the time, in ticks
  debounce_task,        \* self._debounce_task: the timer handle, its state and deadline
  last_event,           \* when the last qualifying filesystem event arrived, -1: never
  calls,                \* invocations of self.callback since the current burst began
  (* SyncClient.send_attachment_data (sync_client.py) *)
  att_call,             \* the arguments and circumstances of the last call
  att_sent,             \* the envelope that call sent on the channel
  att_log,              \* the lines that call appended to FAILED_ATTACHMENTS_LOG
  att_ret,              \* what that call returned
  (* SyncClient.run's dispatch of inbound payloads and the coroutine       *)
  (* SyncClient._send_history_response (sync_client.py)                    *)
  hr,                   \* the _send_history_response coroutine: its position, its
                        \* arguments, the next attachment of its stream, and whether
                        \* the client was seen not connected during the stream
  out,                  \* what that coroutine has put on the channel or attempted to
  inb,                  \* the last inbound payload dispatched and what became of it
  (* calls of the pure functions of messages_db.py *)
  rd,                   \* a call of MessagesDatabase._get_messages and its result
  et                    \* a call of extract_text_from_attributed_body and its result

workerVars == <<running, history_in_progress, request_queue, thread, db,
                wpc, wreq, wres, cpc, spc, sreq, sret, wown, rejected>>

appVars == <<cursor, saved, base, app_connected, maindb, app_loop, watcher,
             sc_connected, sc_running, ws, reconnect_delay, rpc, tasks, fails, sent>>

handlerVars == <<now, debounce_task, last_event, calls>>

attachVars == <<att_call, att_sent, att_log, att_ret>>

historyVars == <<hr, out, inb>>

pureVars == <<rd, et>>

auxVars == <<push, start_ret, handlerVars, attachVars, historyVars, pureVars>>

vars == <<store, workerVars, appVars, auxVars>>

(***************************************************************************)
(* Helpers on sets and sequences.                                          *)
(***************************************************************************)
Max(S) == CHOOSE x \in S : \A y \in S : y <= x
Min(S) == CHOOSE x \in S : \A y \in S : x <= y

RECURSIVE Ascending(_)
Ascending(S) == IF S = {} THEN <<>> ELSE <<Min(S)>> \o Ascending(S \ {Min(S)})

RECURSIVE Descending(_)
Descending(S) == IF S = {} THEN <<>> ELSE <<Max(S)>> \o Descending(S \ {Max(S)})

Range(s) == {s[i] : i \in 1..Len(s)}

(* SQL LIMIT n: the first n rows; a negative n means no limit. *)
Limit(rows, n) ==
  IF n < 0 \/ n >= Len(rows) THEN rows ELSE SubSeq(rows, 1, n)

(***************************************************************************)
(* MessagesDatabase (messages_db.py): the reader's queries, on a store st  *)
(* through a connection that is open (conn) or None.                       *)
(***************************************************************************)
GetMessagesSinceWrongSide(conn, st, since_rowid, limit) ==
  IF ~conn THEN <<>>
  ELSE Limit(Ascending({r \in st : r < since_rowid}), limit)

(* messages_db.py: WHERE m.ROWID > ? ORDER BY m.ROWID ASC LIMIT ? *)
GetMessagesSince(conn, st, since_rowid, limit) ==
  IF ~conn THEN <<>>
  ELSE Limit(Ascending({r \in st : r > since_rowid}), limit)

GetMessagesBefore(conn, st, before_rowid, limit) ==
  IF ~conn THEN <<>>
  ELSE Limit(Descending({r \in st : r < before_rowid}), limit)

GetLatestMessages(conn, st, limit) ==
  IF ~conn THEN <<>> ELSE Limit(Descending(st), limit)

GetLatestMessageRowid(conn, st) ==
  IF ~conn \/ st = {} THEN 0 ELSE Max(st)

(***************************************************************************)
(* DbRequest and results.                                                  *)
(***************************************************************************)
Threads == 1..MaxThreads
Submitters == {"s1", "s2"}
ReqRowids == {1}
ReqLimits == {1}

HistoryOps == {"get_messages_since", "get_messages_before", "get_latest_messages"}

DbRequest(operation, rowid, limit) ==
  [operation |-> operation, rowid |-> rowid, limit |-> limit]

Sentinel == DbRequest("None", 0, 0)
NoRequest == DbRequest("", 0, 0)

NoneResult == [kind |-> "None", rows |-> <<>>]
Unset == [kind |-> "unset", rows |-> <<>>]
Messages(rows) == [kind |-> "messages", rows |-> rows]
Rowid(n) == [kind |-> "int", rows |-> <<n>>]

NoOwn == [result |-> Unset, contended |-> FALSE, raised |-> FALSE]

IsAnyRequest(request) == request.operation \in HistoryOps \cup {"get_latest_rowid"}

(* db_worker.py:121-125 *)
IsHistoryRequest(request) == request.operation \in HistoryOps

(* db_worker.py:128-146: the operation of a request on self._db, whose      *)
(* connection is open (conn) or was never opened                           *)
Execute(request, conn, st) ==
  CASE request.operation = "get_messages_since" ->
         Messages(GetMessagesSince(conn, st, request.rowid, request.limit))
    [] request.operation = "get_messages_before" ->
         Messages(GetMessagesBefore(conn, st, request.rowid, request.limit))
    [] request.operation = "get_latest_messages" ->
         Messages(GetLatestMessages(conn, st, request.limit))
    [] request.operation = "get_latest_rowid" ->
         Rowid(GetLatestMessageRowid(conn, st))
    [] OTHER -> NoneResult

(***************************************************************************)
(* The local store is append-only: another process (Messages.app) inserts  *)
(* records with strictly increasing rowids.                                *)
(***************************************************************************)
WriteRecord ==
  /\ \E r \in 1..MaxRowid :
       /\ \A x \in store : x < r
       /\ store' = store \cup {r}
  /\ UNCHANGED <<workerVars, appVars>>
  /\ UNCHANGED auxVars

(***************************************************************************)
(* DatabaseWorker.start (db_worker.py:46-65).  ok: the validating          *)
(* test_db.connect() succeeded.  The new thread takes a free thread id.    *)
(***************************************************************************)
FreeThreads == {t \in Threads : wpc[t] = "none"}

WorkerStart(ok) ==
  IF running \/ ~ok
    THEN UNCHANGED <<running, thread, wpc>>
    ELSE /\ FreeThreads # {}
         /\ running' = TRUE
         /\ thread' = Min(FreeThreads)
         /\ wpc' = [wpc EXCEPT ![Min(FreeThreads)] = "connect"]

(* lines 50-51, 55-56 and 65: what start() returns *)
StartResult(ok) == IF running \/ ok THEN "True" ELSE "False"

Start ==
  /\ cpc = "idle"
  /\ \E ok \in BOOLEAN :
       /\ WorkerStart(ok)
       /\ start_ret' = [value |-> StartResult(ok), seq |-> 1 - start_ret.seq]
  /\ UNCHANGED <<store, history_in_progress, request_queue, db, wreq, wres,
                 cpc, spc, sreq, sret, wown, rejected>>
  /\ UNCHANGED appVars
  /\ UNCHANGED <<push, handlerVars, attachVars, historyVars, pureVars>>

(***************************************************************************)
(* DatabaseWorker.stop (db_worker.py:72-85).  After putting the sentinel   *)
(* the caller waits in self._thread.join(timeout=5.0): position "joining". *)
(***************************************************************************)
StopNeverReturnsEarly == FALSE

(* lines 74-75: if not self._running: return *)
StopReturnsEarly == ~running

WorkerStop ==
  IF StopReturnsEarly
    THEN UNCHANGED <<running, request_queue, cpc>>
    ELSE /\ Len(request_queue) < MaxQueue
         /\ running' = FALSE
         /\ request_queue' = Append(request_queue, Sentinel)
         /\ cpc' = IF thread # 0 THEN "joining" ELSE "idle"

Stop ==
  /\ cpc = "idle"
  /\ WorkerStop
  /\ UNCHANGED <<store, history_in_progress, thread, db, wpc, wreq, wres,
                 spc, sreq, sret, wown, rejected>>
  /\ UNCHANGED appVars
  /\ UNCHANGED auxVars

(* join(timeout=5.0) returns when the thread has exited, or after 5 s while *)
(* the thread is still inside a request; then self._thread = None          *)
JoinMayReturn(t) == wpc[t] \in {"none", "query", "callback"}

WorkerJoined ==
  /\ cpc = "joining"
  /\ JoinMayReturn(thread)
  /\ thread' = 0
  /\ cpc' = "idle"

JoinReturn ==
  /\ WorkerJoined
  /\ UNCHANGED <<store, running, history_in_progress, request_queue, db,
                 wpc, wreq, wres, spc, sreq, sret, wown, rejected>>
  /\ UNCHANGED appVars
  /\ UNCHANGED auxVars

(***************************************************************************)
(* DatabaseWorker._run (db_worker.py:87-116), one action per step of a     *)
(* worker thread t.                                                        *)
(***************************************************************************)
(* lines 90-94: self._db = MessagesDatabase(...); connect() *)
WConnect(t) ==
  /\ wpc[t] = "connect"
  /\ \E ok \in BOOLEAN :
       IF ok
         THEN /\ db' = t
              /\ wpc' = [wpc EXCEPT ![t] = "check"]
              /\ UNCHANGED running
         ELSE /\ db' = 0 - t
              /\ wpc' = [wpc EXCEPT ![t] = "none"]
              /\ running' = FALSE
  /\ UNCHANGED <<store, history_in_progress, request_queue, thread, wreq, wres,
                 cpc, spc, sreq, sret, wown, rejected>>
  /\ UNCHANGED appVars
  /\ UNCHANGED auxVars

(* line 98: while self._running; lines 113-116 when it is false *)
WCheck(t) ==
  /\ wpc[t] = "check"
  /\ IF running
       THEN /\ wpc' = [wpc EXCEPT ![t] = "get"]
            /\ UNCHANGED db
       ELSE /\ wpc' = [wpc EXCEPT ![t] = "none"]
            /\ db' = 0
  /\ UNCHANGED <<store, running, history_in_progress, request_queue, thread,
                 wreq, wres, cpc, spc, sreq, sret, wown, rejected>>
  /\ UNCHANGED appVars
  /\ UNCHANGED auxVars

(* lines 100-109: request = self._request_queue.get(timeout=1.0) *)
WGet(t) ==
  /\ wpc[t] = "get"
  /\ IF request_queue = <<>>
       THEN /\ wpc' = [wpc EXCEPT ![t] = "check"]
            /\ UNCHANGED <<request_queue, wreq, db>>
       ELSE /\ request_queue' = Tail(request_queue)
            /\ IF Head(request_queue) = Sentinel
                 THEN /\ wpc' = [wpc EXCEPT ![t] = "none"]
                      /\ db' = 0
                      /\ UNCHANGED wreq
                 ELSE /\ wpc' = [wpc EXCEPT ![t] = "query"]
                      /\ wreq' = [wreq EXCEPT ![t] = Head(request_queue)]
                      /\ UNCHANGED db
  /\ UNCHANGED <<store, running, history_in_progress, thread, wres,
                 cpc, spc, sreq, sret, wown, rejected>>
  /\ UNCHANGED appVars
  /\ UNCHANGED auxVars

(***************************************************************************)
(* DatabaseWorker._process_request (db_worker.py:118-163).                 *)
(***************************************************************************)
(* lines 127-150: the result of the operation; raised: the query raised    *)
(* (self._db is None, or an sqlite3 error), which the except clause turns  *)
(* into None                                                               *)
QueryResultEmptyOnError(request, raised) ==
  IF db = 0 \/ raised THEN Messages(<<>>) ELSE Execute(request, db > 0, store)

QueryResult(request, raised) ==
  IF db = 0 \/ raised THEN NoneResult ELSE Execute(request, db > 0, store)

FlagClearedOnSuccessOnly(request, raised) ==
  IF IsHistoryRequest(request) /\ ~raised THEN FALSE ELSE history_in_progress

FlagClearedByAnyRequest(request, raised) == FALSE

(* lines 152-156: the finally clause *)
FlagAfterQuery(request, raised) ==
  IF IsHistoryRequest(request) THEN FALSE ELSE history_in_progress

WQuery(t) ==
  /\ wpc[t] = "query"
  /\ \E raised \in BOOLEAN :
       /\ wres' = [wres EXCEPT ![t] = QueryResult(wreq[t], raised)]
       /\ wown' = [wown EXCEPT ![t] = [result |-> QueryResult(wreq[t], raised),
                                       contended |-> rejected /\ IsHistoryRequest(wreq[t]),
                                       raised |-> db = 0 \/ raised]]
       /\ history_in_progress' = FlagAfterQuery(wreq[t], raised)
  /\ wpc' = [wpc EXCEPT ![t] = "callback"]
  /\ UNCHANGED <<store, running, request_queue, thread, db, wreq,
                 cpc, spc, sreq, sret, rejected>>
  /\ UNCHANGED appVars
  /\ UNCHANGED auxVars

CallbackArgumentNone(t) == NoneResult

(* lines 158-163: request.callback(result) *)
CallbackArgument(t) == wres[t]

WCallback(t) ==
  /\ wpc[t] = "callback"
  /\ wpc' = [wpc EXCEPT ![t] = "check"]
  /\ wreq' = [wreq EXCEPT ![t] = NoRequest]
  /\ wres' = [wres EXCEPT ![t] = Unset]
  /\ wown' = [wown EXCEPT ![t] = NoOwn]
  /\ UNCHANGED <<store, running, history_in_progress, request_queue, thread, db,
                 cpc, spc, sreq, sret, rejected>>
  /\ UNCHANGED appVars
  /\ UNCHANGED auxVars

(***************************************************************************)
(* DatabaseWorker._request_history (db_worker.py:165-180), called through  *)
(* request_messages_since / request_messages_before /                      *)
(* request_latest_messages (lines 182-230) by a thread s.                  *)
(***************************************************************************)
HistoryNeverBusy == FALSE

(* line 173, under self._lock *)
HistoryBusy == history_in_progress

(* lines 172-176: the check-and-set under the lock *)
RequestHistory(s, operation, rowid, limit) ==
  /\ spc[s] = "idle"
  /\ IF HistoryBusy
       THEN /\ sret' = "False"
            /\ rejected' = TRUE
            /\ UNCHANGED <<history_in_progress, spc, sreq>>
       ELSE /\ history_in_progress' = TRUE
            /\ spc' = [spc EXCEPT ![s] = "put"]
            /\ sreq' = [sreq EXCEPT ![s] = DbRequest(operation, rowid, limit)]
            /\ rejected' = FALSE
            /\ UNCHANGED sret
  /\ UNCHANGED <<store, running, request_queue, thread, db, wpc, wreq, wres,
                 cpc, wown>>
  /\ UNCHANGED appVars
  /\ UNCHANGED auxVars

(* lines 178-180: put the request, return True *)
PutRequest(s) ==
  /\ spc[s] = "put"
  /\ Len(request_queue) < MaxQueue
  /\ request_queue' = Append(request_queue, sreq[s])
  /\ spc' = [spc EXCEPT ![s] = "idle"]
  /\ sreq' = [sreq EXCEPT ![s] = NoRequest]
  /\ sret' = "True"
  /\ UNCHANGED <<store, running, history_in_progress, thread, db, wpc, wreq, wres,
                 cpc, wown, rejected>>
  /\ UNCHANGED appVars
  /\ UNCHANGED auxVars

(* DatabaseWorker.get_latest_rowid (db_worker.py:232-239) *)
GetLatestRowid(s) ==
  /\ spc[s] = "idle"
  /\ Len(request_queue) < MaxQueue
  /\ request_queue' = Append(request_queue, DbRequest("get_latest_rowid", 0, 0))
  /\ UNCHANGED <<store, running, history_in_progress, thread, db, wpc, wreq, wres,
                 cpc, spc, sreq, sret, wown, rejected>>
  /\ UNCHANGED appVars
  /\ UNCHANGED auxVars

(***************************************************************************)
(* SpecWorker: the DatabaseWorker with its callers.                        *)
(***************************************************************************)
WorkerInit ==
  /\ running = FALSE
  /\ history_in_progress = FALSE
  /\ request_queue = <<>>
  /\ thread = 0
  /\ db = 0
  /\ wpc = [t \in Threads |-> "none"]
  /\ wreq = [t \in Threads |-> NoRequest]
  /\ wres = [t \in Threads |-> Unset]
  /\ cpc = "idle"
  /\ spc = [s \in Submitters |-> "idle"]
  /\ sreq = [s \in Submitters |-> NoRequest]
  /\ sret = "none"
  /\ wown = [t \in Threads |-> NoOwn]
  /\ rejected = FALSE

(* MessagesSyncHelperApp.__init__ (main.py:321-352), SyncClient.__init__   *)
(* (sync_client.py:73-86) and a fresh Config (config.py:63-65)             *)
AppInit ==
  /\ cursor = 0
  /\ saved = 0
  /\ base = 0
  /\ app_connected = FALSE
  /\ maindb = FALSE
  /\ app_loop = "none"
  /\ watcher = "none"
  /\ sc_connected = FALSE
  /\ sc_running = FALSE
  /\ ws = "none"
  /\ reconnect_delay = INITIAL_RECONNECT_DELAY
  /\ rpc = "off"
  /\ tasks = <<>>
  /\ fails = 0
  /\ sent = {}

(* no send_messages call and no start() call yet *)
NoPush == [ret |-> "none", envelopes |-> <<>>]
NoStart == [value |-> "none", seq |-> 0]

(* MessagesDBEventHandler.__init__ (watcher.py:19-24) *)
NoHandle == [state |-> "none", when |-> 0]

HandlerInit ==
  /\ now = 0
  /\ debounce_task = NoHandle
  /\ last_event = 0 - 1
  /\ calls = 0

(* no send_attachment_data call yet *)
NoCall ==
  [made |-> FALSE,
   attachment |-> [has_path |-> FALSE, exists |-> FALSE, stat_ok |-> FALSE,
                   size |-> 0, total_bytes |-> 0, readable |-> FALSE],
   include_data |-> FALSE, log_ok |-> FALSE, send |-> "not_attempted"]

NoPayload == [type |-> "none", total_bytes |-> 0, error |-> <<>>, data |-> "none"]

AttachInit ==
  /\ att_call = NoCall
  /\ att_sent = NoPayload
  /\ att_log = <<>>
  /\ att_ret = "none"

(* no _send_history_response coroutine, nothing dispatched yet *)
IdleResponse ==
  [pc |-> "idle", result |-> Unset, since |-> <<>>, before |-> <<>>, limit |-> 0,
   next |-> 0, lost |-> FALSE]

NoInbound == [form |-> "none", type |-> "none", effect |-> "none"]

HistoryInit ==
  /\ hr = IdleResponse
  /\ out = <<>>
  /\ inb = NoInbound

(* no call of a pure function *)
NoRead == [op |-> "none"]
NoExtract == [op |-> "none"]

PureInit ==
  /\ rd = NoRead
  /\ et = NoExtract

AuxInit ==
  /\ push = NoPush
  /\ start_ret = NoStart
  /\ HandlerInit
  /\ AttachInit
  /\ HistoryInit
  /\ PureInit

InitWorker ==
  /\ store = {}
  /\ WorkerInit
  /\ AppInit
  /\ AuxInit

SubmitHistory ==
  \E s \in Submitters, operation \in HistoryOps, rowid \in ReqRowids, limit \in ReqLimits :
    RequestHistory(s, operation, rowid, limit)

NextWorker ==
  \/ WriteRecord
  \/ Start
  \/ Stop
  \/ JoinReturn
  \/ \E t \in Threads : WConnect(t)
  \/ \E t \in Threads : WCheck(t)
  \/ \E t \in Threads : WGet(t)
  \/ \E t \in Threads : WQuery(t)
  \/ \E t \in Threads : WCallback(t)
  \/ SubmitHistory
  \/ \E s \in Submitters : PutRequest(s)
  \/ \E s \in Submitters : GetLatestRowid(s)

SpecWorker == InitWorker /\ [][NextWorker]_vars

(***************************************************************************)
(* Claims about the DatabaseWorker, checked under SpecWorker.              *)
(***************************************************************************)
IsHistoryOperation(request) == request.operation \in HistoryOps

(* C1, first half: a step of _request_history taken while a history        *)
(* request is outstanding (the flag is set) returns False, enqueues        *)
(* nothing, leaves the flag set and touches no request or result held by   *)
(* the queue, a submitter or a worker thread.                              *)
C1_Rejects ==
  \A s \in Submitters, operation \in HistoryOps, rowid \in ReqRowids, limit \in ReqLimits :
    (history_in_progress /\ RequestHistory(s, operation, rowid, limit))
      => /\ sret' = "False"
         /\ history_in_progress'
         /\ UNCHANGED <<request_queue, spc, sreq, wpc, wreq, wres, wown>>

(* C1, second half: the argument a request's callback is called with is    *)
(* the result of that request's own store query.                           *)
C1_OwnResult ==
  \A t \in Threads : wpc[t] = "callback" => CallbackArgument(t) = wown[t].result

(* C1: submitting a history request while another is outstanding returns   *)
(* False, enqueues nothing and leaves the in-progress flag set; the first  *)
(* request's callback still receives exactly the result of its own query.  *)
C1_SecondRequestRejected == []C1_OwnResult /\ [][C1_Rejects]_vars

(* C1 witness: a worker thread is about to call the callback of a history  *)
(* request with a non-empty result, and a second submission was rejected   *)
(* while that request was outstanding.                                     *)
C1_Witness ==
  \E t \in Threads :
    /\ wpc[t] = "callback"
    /\ IsHistoryOperation(wreq[t])
    /\ wown[t].contended
    /\ wres[t].kind = "messages" /\ wres[t].rows # <<>>

HistoryQueued == {i \in 1..Len(request_queue) : IsHistoryOperation(request_queue[i])}
HistoryExecuting == {t \in Threads : wpc[t] = "query" /\ IsHistoryOperation(wreq[t])}

(* C2: in every reachable state the number of history requests that are    *)
(* queued or being executed by a worker thread is at most one.             *)
C2_AtMostOneHistoryInFlight ==
  Cardinality(HistoryQueued) + Cardinality(HistoryExecuting) <= 1

(* C2 witness: one history request is being executed by a worker thread    *)
(* and the latest submission, made meanwhile, has been rejected with False *)
C2_Witness ==
  /\ Cardinality(HistoryExecuting) = 1
  /\ rejected
  /\ sret = "False"

LiveConsumers == {t \in Threads : wpc[t] \in {"get", "query"}}

(* C7: across any sequence of start, stop (including a stop whose bounded  *)
(* join times out while a request is still executing) and submissions, at  *)
(* most one execution context at a time consumes the request queue and     *)
(* executes reads on the worker's store connection.                        *)
C7_SingleConsumer == Cardinality(LiveConsumers) <= 1

HistoryPending ==
  \/ \E s \in Submitters : spc[s] = "put"
  \/ HistoryQueued # {}
  \/ HistoryExecuting # {}

C9_Steps ==
  /\ (~history_in_progress /\ history_in_progress')
       => \E s \in Submitters : spc[s] = "idle" /\ spc'[s] = "put"
  /\ (\E s \in Submitters : spc[s] = "idle" /\ spc'[s] = "put")
       => history_in_progress'
  /\ (history_in_progress /\ ~history_in_progress')
       => \E t \in Threads : /\ wpc[t] = "query" /\ wpc'[t] = "callback"
                             /\ IsHistoryOperation(wreq[t])
  /\ \A t \in Threads :
       (wpc[t] = "query" /\ wpc'[t] = "callback" /\ IsHistoryOperation(wreq[t]))
         => ~history_in_progress'

(* C9: the history-in-progress flag is set at the moment a history request *)
(* is accepted and stays set until the worker has finished executing that  *)
(* request's query; it is cleared when the query completes, whether it     *)
(* succeeded or raised, and by nothing else.                               *)
C9_FlagLifetime ==
  /\ [](HistoryPending => history_in_progress)
  /\ [][C9_Steps]_vars

(* C9 witness: the query of a history request raised, the worker holds no  *)
(* data for its callback, and the flag has been cleared.                   *)
C9_Witness ==
  \E t \in Threads :
    /\ wpc[t] = "callback"
    /\ IsHistoryOperation(wreq[t])
    /\ db # 0
    /\ wres[t] = NoneResult
    /\ ~history_in_progress

(***************************************************************************)
(* The application: MessagesSyncHelperApp (main.py) and SyncClient         *)
(* (sync_client.py).                                                       *)
(*                                                                         *)
(* Execution contexts: the UI thread (menu callbacks, position cpc), the   *)
(* event-loop thread running SyncClient.run (position rpc) together with   *)
(* the coroutines scheduled on its loop (tasks), and the worker threads.   *)
(***************************************************************************)
SendTask(messages) == [kind |-> "send_messages", messages |-> messages]
DisconnectTask == [kind |-> "disconnect", messages |-> <<>>]

(* asyncio.run_coroutine_threadsafe(coro, self._loop): the coroutine runs   *)
(* only if that loop is the one the event-loop thread is running           *)
Scheduled(task) == IF app_loop = "live" THEN Append(tasks, task) ELSE tasks

(* main.py:394-395 *)
CursorAfterInit(c, latest) == IF c = 0 THEN latest ELSE c

(***************************************************************************)
(* MessagesSyncHelperApp._do_connect (main.py:385-415).  dbok: self.db     *)
(* could be opened; startok: the worker's validating connect succeeded.    *)
(* The new event-loop thread assigns self._loop (main.py:482) while this   *)
(* thread reads it for watcher.start (main.py:413) with no ordering        *)
(* between the two: early says the assignment came first.                  *)
(***************************************************************************)
DoConnect ==
  /\ cpc = "idle"
  /\ \E dbok \in BOOLEAN, startok \in BOOLEAN, early \in BOOLEAN :
       IF ~dbok
         THEN UNCHANGED <<maindb, cursor, saved, base, running, thread, wpc, rpc,
                          app_loop, watcher>>
         ELSE /\ maindb' = TRUE
              /\ cursor' = CursorAfterInit(cursor, GetLatestMessageRowid(TRUE, store))
              /\ saved' = IF cursor = 0 THEN cursor' ELSE saved
              /\ base' = IF cursor = 0 THEN cursor' ELSE base
              /\ WorkerStart(startok)
              /\ IF ~running /\ ~startok
                   THEN UNCHANGED <<rpc, app_loop, watcher>>
                   ELSE /\ rpc' = IF rpc = "off" THEN "starting" ELSE rpc
                        /\ app_loop' = IF rpc = "off" /\ early THEN "live" ELSE app_loop
                        /\ watcher' = IF watcher # "none" THEN watcher
                                      ELSE IF app_loop' = "none" THEN "noloop"
                                      ELSE app_loop'
  /\ UNCHANGED <<store, history_in_progress, request_queue, db, wreq, wres, cpc,
                 spc, sreq, sret, wown, rejected>>
  /\ UNCHANGED <<app_connected, sc_connected, sc_running, ws,
                 reconnect_delay, tasks, fails, sent>>
  /\ UNCHANGED auxVars

(***************************************************************************)
(* MessagesSyncHelperApp.on_disconnect (main.py:503-517); the UI thread    *)
(* waits inside db_worker.stop() while the worker thread is joined.        *)
(***************************************************************************)
OnDisconnect ==
  /\ cpc = "idle"
  /\ Len(tasks) < MaxTasks
  /\ watcher' = "none"
  /\ tasks' = Scheduled(DisconnectTask)
  /\ WorkerStop
  /\ maindb' = IF running /\ thread # 0 THEN maindb ELSE FALSE
  /\ UNCHANGED <<store, history_in_progress, thread, db, wpc, wreq, wres,
                 spc, sreq, sret, wown, rejected>>
  /\ UNCHANGED <<cursor, saved, base, app_connected, app_loop, sc_connected,
                 sc_running, ws, reconnect_delay, rpc, fails, sent>>
  /\ UNCHANGED auxVars

(* main.py:514-517: db_worker.stop() returns, then self.db.close() *)
DisconnectJoined ==
  /\ WorkerJoined
  /\ maindb' = FALSE
  /\ UNCHANGED <<store, running, history_in_progress, request_queue, db,
                 wpc, wreq, wres, spc, sreq, sret, wown, rejected>>
  /\ UNCHANGED <<cursor, saved, base, app_connected, app_loop, watcher, sc_connected,
                 sc_running, ws, reconnect_delay, rpc, tasks, fails, sent>>
  /\ UNCHANGED auxVars

(***************************************************************************)
(* MessagesSyncHelperApp._on_db_change (main.py:460-478), called by the    *)
(* watcher's handler once a change of the store's files is signalled       *)
(* (watcher.py:40-52): directly on the observer's thread when the handler  *)
(* has no loop, else as a timer callback of the handler's loop.            *)
(***************************************************************************)
NewMessages == GetMessagesSince(maindb, store, cursor, CHANGE_FETCH_LIMIT)

(* main.py:470: messages[-1].rowid *)
LastSeenRowid(messages) == messages[Len(messages)]

(* without the test of self._connected of main.py:462-463 *)
ChangeFetchedUnguarded == NewMessages # <<>>

ChangeFetched == app_connected /\ NewMessages # <<>>

(* raised: the read raises (an sqlite3 error, or the connection's check of *)
(* the calling thread); nothing in _on_db_change catches it                *)
OnDbChange ==
  /\ IF watcher = "live" THEN rpc \in {"connecting", "sleep", "recv"}
                         ELSE watcher = "noloop"
  /\ Len(tasks) < MaxTasks
  /\ \E raised \in BOOLEAN :
     IF ~raised /\ ChangeFetched
       THEN /\ cursor' = LastSeenRowid(NewMessages)
            /\ saved' = LastSeenRowid(NewMessages)
            /\ tasks' = IF app_loop # "none" THEN Scheduled(SendTask(NewMessages))
                                             ELSE tasks
       ELSE UNCHANGED <<cursor, saved, tasks>>
  /\ UNCHANGED <<store, workerVars>>
  /\ UNCHANGED <<base, app_connected, maindb, app_loop, watcher, sc_connected,
                 sc_running, ws, reconnect_delay, rpc, fails, sent>>
  /\ UNCHANGED auxVars

(***************************************************************************)
(* The event-loop thread: _start_async_loop (main.py:480-486) and          *)
(* SyncClient.run (sync_client.py:206-233).                                *)
(***************************************************************************)
(* main.py:482-486 and sync_client.py:208-209 *)
LoopStart ==
  /\ rpc = "starting"
  /\ app_loop' = "live"
  /\ sc_running' = TRUE
  /\ rpc' = "top"
  /\ UNCHANGED <<store, workerVars>>
  /\ UNCHANGED <<cursor, saved, base, app_connected, maindb, watcher, sc_connected,
                 ws, reconnect_delay, tasks, fails, sent>>
  /\ UNCHANGED auxVars

(* sync_client.py:211-213: the while test and the test of self._connected; *)
(* when run() returns the thread ends and its loop runs nothing any more   *)
RunTop ==
  /\ rpc = "top"
  /\ IF ~sc_running
       THEN /\ rpc' = "off"
            /\ app_loop' = "dead"
            /\ watcher' = IF watcher = "live" THEN "dead" ELSE watcher
            /\ tasks' = <<>>
       ELSE /\ rpc' = IF sc_connected THEN "recv" ELSE "connecting"
            /\ UNCHANGED <<app_loop, watcher, tasks>>
  /\ UNCHANGED <<store, workerVars>>
  /\ UNCHANGED <<cursor, saved, base, app_connected, maindb, sc_connected,
                 sc_running, ws, reconnect_delay, fails, sent>>
  /\ UNCHANGED auxVars

(* SyncClient.connect (sync_client.py:92-111) with the on_connected        *)
(* callback (main.py:417-421); after a failure run() sleeps (line 216)     *)
ConnectDone ==
  /\ rpc = "connecting"
  /\ \E ok \in BOOLEAN :
       IF ok
         THEN /\ ws' = "open"
              /\ sc_connected' = TRUE
              /\ reconnect_delay' = INITIAL_RECONNECT_DELAY
              /\ app_connected' = TRUE
              /\ fails' = 0
              /\ rpc' = "recv"
         ELSE /\ sc_connected' = FALSE
              /\ fails' = IF fails < MaxFails THEN fails + 1 ELSE fails
              /\ rpc' = "sleep"
              /\ UNCHANGED <<ws, reconnect_delay, app_connected>>
  /\ UNCHANGED <<store, workerVars>>
  /\ UNCHANGED <<cursor, saved, base, maindb, app_loop, watcher, sc_running,
                 tasks, sent>>
  /\ UNCHANGED auxVars

UncappedDelay(d) == d * 2

(* sync_client.py:217-219 *)
NextReconnectDelay(d) == Min({d * 2, MAX_RECONNECT_DELAY})

(* sync_client.py:216-220: the sleep is over *)
SleepDone ==
  /\ rpc = "sleep"
  /\ reconnect_delay' = NextReconnectDelay(reconnect_delay)
  /\ rpc' = "top"
  /\ UNCHANGED <<store, workerVars>>
  /\ UNCHANGED <<cursor, saved, base, app_connected, maindb, app_loop, watcher,
                 sc_connected, sc_running, ws, tasks, fails, sent>>
  /\ UNCHANGED auxVars

(* observation: the client is seen not connected while the attachment     *)
(* stream of a history response is under way                               *)
StreamObserves(connected) ==
  IF hr.pc = "stream" /\ ~connected THEN [hr EXCEPT !.lost = TRUE] ELSE hr

(* the remote end or the network closes the channel, cleanly or not *)
ChannelClose ==
  /\ ws = "open"
  /\ \E how \in {"closed_ok", "closed_err"} : ws' = how
  /\ UNCHANGED <<store, workerVars>>
  /\ UNCHANGED <<cursor, saved, base, app_connected, maindb, app_loop, watcher,
                 sc_connected, sc_running, reconnect_delay, rpc, tasks, fails, sent>>
  /\ UNCHANGED auxVars

(* sync_client.py:222-230: the receive loop ends because the channel is    *)
(* closed: on ConnectionClosed the except clause runs, with the            *)
(* on_disconnected callback (main.py:423-427); after a clean close, or a   *)
(* close by disconnect(), the iteration just ends                          *)
RecvEnds ==
  /\ rpc = "recv"
  /\ ws # "open"
  /\ IF ws = "closed_err"
       THEN /\ sc_connected' = FALSE
            /\ app_connected' = FALSE
       ELSE UNCHANGED <<sc_connected, app_connected>>
  /\ rpc' = "top"
  /\ UNCHANGED <<store, workerVars>>
  /\ UNCHANGED <<cursor, saved, base, maindb, app_loop, watcher, sc_running, ws,
                 reconnect_delay, tasks, fails, sent>>
  /\ hr' = StreamObserves(sc_connected')
  /\ UNCHANGED <<push, start_ret, handlerVars, attachVars, out, inb, pureVars>>

(* sync_client.py:231-233: any other exception in the message loop *)
RecvError ==
  /\ rpc = "recv"
  /\ ws = "open"
  /\ sc_connected' = FALSE
  /\ rpc' = "top"
  /\ UNCHANGED <<store, workerVars>>
  /\ UNCHANGED <<cursor, saved, base, app_connected, maindb, app_loop, watcher,
                 sc_running, ws, reconnect_delay, tasks, fails, sent>>
  /\ UNCHANGED auxVars

(* the loop runs a scheduled coroutine while run() is suspended in an await *)
LoopIdle == rpc \in {"connecting", "sleep", "recv"}

(***************************************************************************)
(* SyncClient.send_messages (sync_client.py:124-141), run by the loop.     *)
(***************************************************************************)
SendSucceeds == sc_connected /\ ws = "open"

(* sync_client.py:130-134: the payload *)
NewMessagesEnvelope(messages) == [type |-> "new_messages", messages |-> messages]

ConnectedKeptAfterSendFault == sc_connected

(* sync_client.py:138-141: self._connected after the except clause *)
ConnectedAfterSendFault == FALSE

RunSendMessages ==
  /\ LoopIdle
  /\ tasks # <<>>
  /\ Head(tasks).kind = "send_messages"
  /\ tasks' = Tail(tasks)
  /\ IF ~sc_connected \/ ws = "none"
       THEN /\ push' = [ret |-> "False", envelopes |-> <<>>]
            /\ UNCHANGED <<sc_connected, sent>>
       ELSE IF ws = "open"
              THEN /\ sent' = sent \cup Range(Head(tasks).messages)
                   /\ push' = [ret |-> "True",
                               envelopes |-> <<NewMessagesEnvelope(Head(tasks).messages)>>]
                   /\ UNCHANGED sc_connected
              ELSE /\ sc_connected' = ConnectedAfterSendFault
                   /\ push' = [ret |-> "False", envelopes |-> <<>>]
                   /\ UNCHANGED sent
  /\ UNCHANGED <<store, workerVars>>
  /\ UNCHANGED <<cursor, saved, base, app_connected, maindb, app_loop, watcher,
                 sc_running, ws, reconnect_delay, rpc, fails>>
  /\ UNCHANGED <<start_ret, handlerVars, attachVars, historyVars, pureVars>>

(***************************************************************************)
(* SyncClient.disconnect (sync_client.py:113-122), run by the loop, with   *)
(* the on_disconnected callback (main.py:423-427).                         *)
(***************************************************************************)
RunDisconnect ==
  /\ LoopIdle
  /\ tasks # <<>>
  /\ Head(tasks).kind = "disconnect"
  /\ tasks' = Tail(tasks)
  /\ sc_running' = FALSE
  /\ ws' = "none"
  /\ sc_connected' = FALSE
  /\ app_connected' = FALSE
  /\ UNCHANGED <<store, workerVars>>
  /\ UNCHANGED <<cursor, saved, base, maindb, app_loop, watcher,
                 reconnect_delay, rpc, fails, sent>>
  /\ UNCHANGED auxVars

(***************************************************************************)
(* Spec: the application.                                                  *)
(***************************************************************************)
Init ==
  /\ store = {}
  /\ WorkerInit
  /\ AppInit
  /\ AuxInit

Next ==
  \/ WriteRecord
  \/ DoConnect
  \/ OnDisconnect
  \/ DisconnectJoined
  \/ OnDbChange
  \/ LoopStart
  \/ RunTop
  \/ ConnectDone
  \/ SleepDone
  \/ ChannelClose
  \/ RecvEnds
  \/ RecvError
  \/ RunSendMessages
  \/ RunDisconnect
  \/ \E t \in Threads : WConnect(t)
  \/ \E t \in Threads : WCheck(t)
  \/ \E t \in Threads : WGet(t)

Spec == Init /\ [][Next]_vars

(***************************************************************************)
(* Claims about the application, under Spec.                               *)
(***************************************************************************)
(* C3: the cursor (config.last_message_rowid) and its persisted copy are   *)
(* advanced only after the batch they cover has been sent successfully:    *)
(* either they still have the value the connect left, or the record at     *)
(* that position has gone out on the channel.                              *)
C3_CursorAdvancedAfterSend ==
  /\ cursor = base \/ cursor \in sent
  /\ saved = base \/ saved \in sent

SendPending == \E i \in 1..Len(tasks) : tasks[i].kind = "send_messages"

(* C4: at-least-once delivery: every record of the store whose position is *)
(* greater than the initial cursor and at most the current cursor has been *)
(* sent on the channel, as soon as no push of it is still waiting to run;  *)
(* a failed or dropped push leaves no record behind the cursor unsent.     *)
C4_AtLeastOnce ==
  ~SendPending =>
     \A r \in store : (base < r /\ r <= cursor) => r \in sent

ExpectedBatch == Limit(Ascending({r \in store : r > cursor}), 50)

(* C5: a change signal handled while connected, with records beyond the    *)
(* cursor, schedules one push of exactly the records with position >       *)
(* cursor, ascending, at most 50; and when a push succeeds the cursor      *)
(* equals the maximum position among the records pushed.                   *)
C5_PushedBatchAndCursor ==
  [][ /\ (OnDbChange /\ tasks' # tasks)
          => tasks' = Append(tasks, SendTask(ExpectedBatch))
      /\ (SendSucceeds /\ RunSendMessages)
          => cursor' = Max(Range(Head(tasks).messages)) ]_vars

(* C6: the cursor and its persisted copy never decrease, whatever step is  *)
(* taken: connect, change signal, push (successful or failed), disconnect. *)
C6_CursorNeverDecreases == [][cursor' >= cursor /\ saved' >= saved]_vars

(* C6 witness: the cursor was initialised by a connect to 1, advanced by a *)
(* change signal to 2, the push did not go out, and the application has    *)
(* disconnected since.                                                     *)
C6_Witness ==
  /\ base = 1
  /\ cursor = 2
  /\ sent = {}
  /\ ~maindb
  /\ rpc = "off"
  /\ app_loop = "dead"

(* the worker is Running: _running is set and its thread holds the         *)
(* worker's connection                                                     *)
WorkerRunning == running /\ thread # 0 /\ db = thread

(* C8: while the worker is Running no other context queries the store: no  *)
(* step of the change callback fetches records through the application's   *)
(* own connection, and no connect request reads the latest position.       *)
C8_OnlyWorkerReadsStore ==
  [][WorkerRunning => /\ ~(OnDbChange /\ cursor' # cursor)
                      /\ ~(DoConnect /\ cursor' # cursor)]_vars

BackoffSequence == <<1, 2, 4, 8, 16, 30>>

ExpectedDelay(n) == IF n <= Len(BackoffSequence) THEN BackoffSequence[n] ELSE 30

(* C10: the delay slept after the n-th consecutive failed connect attempt  *)
(* is the n-th term of 1, 2, 4, 8, 16, 30, 30, ...; outside the sleep the  *)
(* delay is the term the next failure will use, which is 1 after a         *)
(* successful connect (fails counts the failures since the last success).  *)
C10_ReconnectBackoff ==
  reconnect_delay = ExpectedDelay(IF rpc = "sleep" THEN fails ELSE fails + 1)

(* C10 witness: after a successful connect, the seventh consecutive        *)
(* failed attempt sleeps 30 seconds.                                       *)
C10_Witness ==
  /\ rpc = "sleep"
  /\ fails = 7
  /\ reconnect_delay = 30
  /\ ws # "none"

(* C11: once the channel has closed while the client is running (remote   *)
(* close, clean or abnormal) and the receive loop has come back to the top *)
(* of run()'s loop, the client is Disconnected, so that the loop makes a   *)
(* new connect attempt; it is never Connected over a closed channel there. *)
C11_DisconnectedAfterClose ==
  (rpc = "top" /\ ws \in {"closed_ok", "closed_err"}) => ~sc_connected

C12_Steps ==
  RunSendMessages =>
    /\ push'.ret = "False" <=> (~sc_connected \/ ws # "open")
    /\ push'.ret = "False" =>
          (~sc_connected' /\ push'.envelopes = <<>> /\ sent' = sent)
    /\ push'.ret = "True" =>
          /\ push'.envelopes = <<NewMessagesEnvelope(Head(tasks).messages)>>
          /\ sent' = sent \cup Range(Head(tasks).messages)
    /\ tasks' = Tail(tasks)

(* C12: send_messages returns False and leaves the client Disconnected     *)
(* when it is called while not connected or when the send faults, sending  *)
(* nothing; it is not rescheduled; and when it returns True exactly one    *)
(* new_messages envelope carrying the whole batch has been sent.           *)
C12_PushRecords == [][C12_Steps]_vars

(* C12 witness: a push found the channel closed while the client was       *)
(* Connected: it returned False, sent nothing, and the client is           *)
(* Disconnected while run() is still in its receive loop.                  *)
C12_Witness ==
  /\ push.ret = "False"
  /\ push.envelopes = <<>>
  /\ ws \in {"closed_ok", "closed_err"}
  /\ ~sc_connected
  /\ rpc = "recv"

(***************************************************************************)
(* The change watcher: MessagesDatabaseWatcher and MessagesDBEventHandler  *)
(* (watcher.py), with the filesystem observer that calls on_modified, the  *)
(* event loop that runs the handler's timer, and a clock.                  *)
(***************************************************************************)
FsEvents ==
  [is_directory : BOOLEAN, name : {"chat.db", "chat.db-wal", "chat.db-shm", "Attachments"}]

(* watcher.py:32-38 *)
Qualifies(event) ==
  ~event.is_directory /\ event.name \in {"chat.db", "chat.db-wal", "chat.db-shm"}

(* the event continues a burst: it arrives before a timer started at the   *)
(* previous qualifying event would have elapsed                            *)
InBurst == last_event >= 0 /\ now < last_event + DEBOUNCE_TICKS

watcherFrame == <<cursor, saved, base, app_connected, maindb, app_loop,
                  sc_connected, sc_running, ws, reconnect_delay, rpc, tasks, fails, sent>>

(* MessagesDatabaseWatcher.start (watcher.py:63-87): exists: the store's   *)
(* directory exists; loop: the caller passed an event loop                 *)
WatcherStart ==
  /\ watcher = "none"
  /\ \E exists \in BOOLEAN, loop \in BOOLEAN :
       IF exists
         THEN /\ watcher' = IF loop THEN "live" ELSE "noloop"
              /\ debounce_task' = NoHandle
         ELSE UNCHANGED <<watcher, debounce_task>>
  /\ UNCHANGED <<store, workerVars, watcherFrame, push, start_ret, attachVars, historyVars, pureVars>>
  /\ UNCHANGED <<now, last_event, calls>>

(* MessagesDatabaseWatcher.stop (watcher.py:89-94): the observer stops; a  *)
(* timer the handler has started stays scheduled on the loop               *)
WatcherStop ==
  /\ watcher # "none"
  /\ watcher' = "none"
  /\ UNCHANGED <<store, workerVars, watcherFrame, push, start_ret, attachVars, historyVars, pureVars>>
  /\ UNCHANGED handlerVars

(* watcher.py:48: self._debounce_task.done() is evaluated when the handler *)
(* already holds a handle; what loop.call_later returned is an             *)
(* asyncio.TimerHandle, which has cancel() and cancelled() but no done():  *)
(* the call raises AttributeError and _schedule_callback ends there        *)
TimerDoneRaises(handle) == handle.state # "none"

(* MessagesDBEventHandler.on_modified and _schedule_callback               *)
(* (watcher.py:30-52), called by the observer's thread                     *)
OnModified(event) ==
  /\ watcher \in {"noloop", "live"}
  /\ calls < MaxCalls
  /\ IF Qualifies(event)
       THEN /\ last_event' = now
            /\ IF watcher = "noloop"
                 THEN /\ calls' = (IF InBurst THEN calls ELSE 0) + 1
                      /\ UNCHANGED debounce_task
                 ELSE /\ calls' = IF InBurst THEN calls ELSE 0
                      /\ debounce_task' =
                            IF TimerDoneRaises(debounce_task) THEN debounce_task
                            ELSE [state |-> "pending", when |-> now + DEBOUNCE_TICKS]
       ELSE UNCHANGED <<last_event, calls, debounce_task>>
  /\ UNCHANGED <<store, workerVars, watcherFrame, watcher, push, start_ret, attachVars, historyVars, pureVars>>
  /\ UNCHANGED now

(* the loop runs the timer's callback when its deadline comes *)
TimerFires ==
  /\ debounce_task.state = "pending"
  /\ debounce_task.when = now
  /\ debounce_task' = [debounce_task EXCEPT !.state = "ran"]
  /\ calls' = calls + 1
  /\ UNCHANGED <<store, workerVars, watcherFrame, watcher, push, start_ret, attachVars, historyVars, pureVars>>
  /\ UNCHANGED <<now, last_event>>

(* time passes, but not beyond the deadline of a pending timer *)
Tick ==
  /\ now < MaxTime
  /\ ~(debounce_task.state = "pending" /\ debounce_task.when = now)
  /\ now' = now + 1
  /\ UNCHANGED <<store, workerVars, watcherFrame, watcher, push, start_ret, attachVars, historyVars, pureVars>>
  /\ UNCHANGED <<debounce_task, last_event, calls>>

NextWatcher ==
  \/ WatcherStart
  \/ WatcherStop
  \/ \E event \in FsEvents : OnModified(event)
  \/ TimerFires
  \/ Tick

SpecWatcher == Init /\ [][NextWatcher]_vars

QualifyingEvent == \E event \in FsEvents : Qualifies(event) /\ OnModified(event)

C13_Steps ==
  /\ QualifyingEvent =>
        debounce_task' = [state |-> "pending", when |-> now + DEBOUNCE_TICKS]
  /\ calls' > calls => now = last_event' + DEBOUNCE_TICKS

C13_OncePerBurst ==
  (last_event >= 0 /\ now > last_event + DEBOUNCE_TICKS) => calls = 1

(* C13: debounce: each qualifying filesystem event (re)starts the debounce *)
(* timer, replacing a pending one; the change callback is invoked only one *)
(* debounce interval after the last qualifying event, and once a burst is  *)
(* over it has been invoked exactly once.                                  *)
C13_Debounce == []C13_OncePerBurst /\ [][C13_Steps]_vars

(***************************************************************************)
(* More claims about the DatabaseWorker, under SpecWorker.                 *)
(***************************************************************************)
C14_CallbackGetsNone ==
  \A t \in Threads :
    (wpc[t] = "callback" /\ wown[t].raised) => CallbackArgument(t) = NoneResult

C14_Steps ==
  \A t \in Threads :
    /\ (wpc[t] = "query" /\ wpc'[t] # "query")
         => /\ wpc'[t] = "callback"
            /\ running' = running
            /\ UNCHANGED <<request_queue, spc, sreq, sret, cpc>>
    /\ (wpc[t] = "callback" /\ wown[t].raised /\ wpc'[t] # "callback")
         => /\ wpc'[t] = "check"
            /\ running' = running
            /\ UNCHANGED <<request_queue, spc, sreq, sret, cpc>>

(* C14: when the store query of a request raises inside the worker, the    *)
(* callback is called with None; the step that ends the query goes on to   *)
(* the callback and the step that ends the callback goes back to the       *)
(* worker's loop, neither changing the Running flag, the queue, or         *)
(* anything a submitter holds or is returned.                              *)
C14_QueryFailureIsNoData == []C14_CallbackGetsNone /\ [][C14_Steps]_vars

(* C14 witness: a query has raised, its callback is about to be called     *)
(* with None, the worker is Running with its connection, and a request     *)
(* submitted meanwhile waits in the queue.                                 *)
C14_Witness ==
  \E t \in Threads :
    /\ wpc[t] = "callback"
    /\ wown[t].raised
    /\ wres[t] = NoneResult
    /\ running /\ thread = t /\ db = t
    /\ request_queue # <<>>
    /\ request_queue[1] # Sentinel

LatestRowidRequest == DbRequest("get_latest_rowid", 0, 0)

C15_Accepted ==
  \A s \in Submitters :
    (spc[s] = "idle" /\ Len(request_queue) < MaxQueue) => ENABLED GetLatestRowid(s)

C15_Steps ==
  /\ \A s \in Submitters :
       GetLatestRowid(s) =>
         /\ request_queue' = Append(request_queue, LatestRowidRequest)
         /\ history_in_progress' = history_in_progress
  /\ \A t \in Threads :
       (wreq[t] = LatestRowidRequest /\ wpc[t] = "query" /\ wpc'[t] # "query")
         => history_in_progress' = history_in_progress

(* C15: get_latest_rowid can be submitted whether or not a history request *)
(* is outstanding (the flag plays no part), the submission appends the     *)
(* request to the queue, and neither submitting it nor executing it        *)
(* changes the history-in-progress flag.                                   *)
C15_NonHistoryFree == []C15_Accepted /\ [][C15_Steps]_vars

(* C15 witness: a get_latest_rowid request submitted while a history       *)
(* request was outstanding has been executed and has its result, and the   *)
(* flag is still set.                                                      *)
C15_Witness ==
  \E t \in Threads :
    /\ wpc[t] = "callback"
    /\ wreq[t] = LatestRowidRequest
    /\ wres[t].kind = "int"
    /\ history_in_progress

C16_Returns ==
  cpc = "joining" =>
    \/ ENABLED JoinReturn
    \/ ENABLED (WConnect(thread) \/ WCheck(thread) \/ WGet(thread))

C16_Steps ==
  /\ (~running /\ Stop) => UNCHANGED <<running, request_queue, thread, cpc, wpc>>
  /\ (running /\ Stop) =>
        /\ ~running'
        /\ request_queue' = Append(request_queue, Sentinel)
        /\ cpc' = IF thread # 0 THEN "joining" ELSE "idle"
  /\ JoinReturn => (~running' /\ thread' = 0 /\ cpc' = "idle")

(* C16: stop() called while Stopped changes nothing and enqueues no        *)
(* sentinel; called while Running it clears the running flag, enqueues the *)
(* sentinel and waits in the join; the join can always end: the thread is  *)
(* gone, or can take its next step, or the timeout lets stop() return      *)
(* while the thread is still executing a request; and when the join ends   *)
(* the worker is Stopped (not running, no thread held).                    *)
C16_StopIsSafe == []C16_Returns /\ [][C16_Steps]_vars

(* C16 witness: stop() has returned after its join timed out: the worker   *)
(* is Stopped while the thread it gave up on is still executing a request  *)
C16_Witness ==
  /\ cpc = "idle"
  /\ ~running
  /\ thread = 0
  /\ \E t \in Threads : wpc[t] = "query"

(* C17: a start() call that returns False leaves the worker Stopped and    *)
(* spawns no thread; a start() call that returns True leaves the worker    *)
(* Running with a live thread (one that is opening, or holds, the worker's *)
(* store connection).                                                      *)
C17_StartResult ==
  [][ start_ret' # start_ret =>
        /\ start_ret'.value = "False" =>
              (~running' /\ UNCHANGED <<thread, wpc>>)
        /\ start_ret'.value = "True" =>
              (running' /\ thread' # 0 /\ wpc'[thread'] # "none") ]_vars

(***************************************************************************)
(* SyncClient.send_attachment_data (sync_client.py:143-204) and            *)
(* log_failed_attachment (sync_client.py:23-36).                           *)
(***************************************************************************)
(* sync_client.py:18 *)
MAX_ATTACHMENT_SIZE == 10 * 1024 * 1024

(* An attachment as the call sees it: has_path: local_path is not None     *)
(* (the record has a filename); exists, size, readable: the file at that   *)
(* path; stat_ok: stat() of it succeeds (line 166); total_bytes: the size  *)
(* the store declares.                                                     *)
FileSizes == {1, MAX_ATTACHMENT_SIZE, MAX_ATTACHMENT_SIZE + 1}
DeclaredSizes == {1, MAX_ATTACHMENT_SIZE + 1}

Attachments ==
  [has_path : BOOLEAN, exists : BOOLEAN, stat_ok : BOOLEAN, size : FileSizes,
   total_bytes : DeclaredSizes, readable : BOOLEAN]

(* the text of the OSError a failed read raises *)
OSErrorText == "Permission denied"

TooLargeNever(file_size) == FALSE

(* line 167 *)
TooLarge(file_size) == file_size > MAX_ATTACHMENT_SIZE

(* lines 157-193: error_msg, the text handed to log_failed_attachment;     *)
(* <<>> when nothing fails.  A text put together by an f-string is the     *)
(* sequence of its parts.                                                  *)
ErrorMsg(a, include_data) ==
  IF include_data /\ a.has_path
    THEN IF ~a.exists THEN <<"file_not_found">>
         ELSE IF TooLarge(a.size) THEN <<"file_too_large", a.size>>
         ELSE IF ~a.readable THEN <<"read_error", OSErrorText>>
         ELSE <<>>
    ELSE IF include_data THEN <<"no_local_path">>
    ELSE <<>>

(* lines 163, 173, 187, 192: payload["error"] *)
PayloadError(a, include_data) ==
  IF include_data /\ a.has_path /\ a.exists /\ TooLarge(a.size)
    THEN <<"file_too_large">>
    ELSE ErrorMsg(a, include_data)

(* the file is read whatever its size, and a failed read still leaves data *)
PayloadDataUnchecked(a, include_data) ==
  IF include_data /\ a.has_path /\ a.exists THEN "base64" ELSE "none"

(* lines 180-182: payload["data"] *)
PayloadData(a, include_data) ==
  IF include_data /\ a.has_path /\ a.exists /\ ~TooLarge(a.size) /\ a.readable
    THEN "base64" ELSE "none"

(* lines 151-154 and serialize_attachment (lines 56-67) *)
AttachmentEnvelope(a, include_data) ==
  [type |-> "attachment", total_bytes |-> a.total_bytes,
   error |-> PayloadError(a, include_data), data |-> PayloadData(a, include_data)]

(* log_failed_attachment (lines 23-36): one line, unless writing the log   *)
(* raises, which is caught and only reported                               *)
LoggedLines(a, include_data, log_ok) ==
  IF ErrorMsg(a, include_data) # <<>> /\ log_ok
    THEN <<[error |-> ErrorMsg(a, include_data), total_bytes |-> a.total_bytes]>>
    ELSE <<>>

(* lines 147-148, 166, 195-204: whether ws.send is reached and how it      *)
(* ends; fault: it raises something other than ConnectionClosed.  stat()   *)
(* raising is caught by the handler of line 202, before anything is sent   *)
(* or logged.                                                              *)
SendOutcome(a, include_data, fault) ==
  IF ~sc_connected \/ ws = "none" THEN "not_attempted"
  ELSE IF include_data /\ a.has_path /\ a.exists /\ ~a.stat_ok THEN "stat_error"
  ELSE IF ws # "open" THEN "closed"
  ELSE IF fault THEN "fault"
  ELSE "sent"

clientFrame == <<cursor, saved, base, maindb, app_loop, watcher, rpc, tasks, fails, sent>>

SendAttachmentData ==
  /\ \E a \in Attachments, include_data \in BOOLEAN, log_ok \in BOOLEAN,
        fault \in BOOLEAN :
       /\ att_call' = [made |-> TRUE, attachment |-> a, include_data |-> include_data,
                       log_ok |-> log_ok, send |-> SendOutcome(a, include_data, fault)]
       /\ att_sent' = IF SendOutcome(a, include_data, fault) = "sent"
                        THEN AttachmentEnvelope(a, include_data) ELSE NoPayload
       /\ att_log' = IF SendOutcome(a, include_data, fault) \in {"not_attempted", "stat_error"}
                       THEN <<>> ELSE LoggedLines(a, include_data, log_ok)
       /\ att_ret' = IF SendOutcome(a, include_data, fault) = "sent" THEN "True" ELSE "False"
       /\ sc_connected' = IF SendOutcome(a, include_data, fault) = "closed" THEN FALSE ELSE sc_connected
  /\ UNCHANGED <<store, workerVars, clientFrame, push, start_ret, handlerVars,
                 historyVars, pureVars>>
  /\ UNCHANGED <<app_connected, sc_running, ws, reconnect_delay>>

(* SyncClient.connect (sync_client.py:92-111), called directly *)
CallConnect ==
  /\ \E ok \in BOOLEAN :
       IF ok
         THEN /\ ws' = "open"
              /\ sc_connected' = TRUE
              /\ reconnect_delay' = INITIAL_RECONNECT_DELAY
              /\ app_connected' = TRUE
         ELSE /\ sc_connected' = FALSE
              /\ UNCHANGED <<ws, reconnect_delay, app_connected>>
  /\ UNCHANGED <<store, workerVars, clientFrame, auxVars>>
  /\ UNCHANGED sc_running

(* SyncClient.disconnect (sync_client.py:113-122), called directly *)
CallDisconnect ==
  /\ sc_running' = FALSE
  /\ ws' = "none"
  /\ sc_connected' = FALSE
  /\ app_connected' = FALSE
  /\ hr' = StreamObserves(FALSE)
  /\ UNCHANGED <<store, workerVars, clientFrame>>
  /\ UNCHANGED <<push, start_ret, handlerVars, attachVars, out, inb, pureVars>>
  /\ UNCHANGED reconnect_delay

(***************************************************************************)
(* SpecClient: the SyncClient with its callers and the remote end.         *)
(***************************************************************************)
NextClient ==
  \/ CallConnect
  \/ CallDisconnect
  \/ ChannelClose
  \/ SendAttachmentData

SpecClient == Init /\ [][NextClient]_vars

(***************************************************************************)
(* Claims about send_attachment_data, checked under SpecClient.            *)
(***************************************************************************)
(* C18 as stated: an attachment whose declared byte size (total_bytes)     *)
(* exceeds the cap, pushed with include_data, is not inlined: the envelope *)
(* sent carries error file_too_large and no data, and one log line is      *)
(* appended (the log being writable).                                      *)
C18_DeclaredSizeCap ==
  (/\ att_call.made
   /\ att_call.include_data
   /\ att_call.attachment.total_bytes > MAX_ATTACHMENT_SIZE
   /\ att_call.send = "sent")
    => /\ att_sent.data = "none"
       /\ att_sent.error = <<"file_too_large">>
       /\ att_call.log_ok => Len(att_log) = 1

C18_FileOverCap ==
  /\ att_call.made
  /\ att_call.include_data
  /\ att_call.attachment.has_path
  /\ att_call.attachment.exists
  /\ att_call.attachment.stat_ok
  /\ att_call.attachment.size > MAX_ATTACHMENT_SIZE

(* C18, amended: an attachment whose file on disk exceeds the cap, pushed  *)
(* with include_data, is never inlined: the envelope, when it is sent,     *)
(* carries error file_too_large and no data, and the push appends one log  *)
(* line when the log can be written and none when it cannot.               *)
C18_FileSizeCap ==
  C18_FileOverCap
    => /\ att_sent.data = "none"
       /\ att_call.send = "sent"
            => /\ att_sent.type = "attachment"
               /\ att_sent.error = <<"file_too_large">>
       /\ att_call.send # "not_attempted"
            => Len(att_log) = IF att_call.log_ok THEN 1 ELSE 0

C18_Witness ==
  /\ C18_FileOverCap
  /\ att_call.attachment.total_bytes <= MAX_ATTACHMENT_SIZE
  /\ att_call.attachment.readable
  /\ att_call.send = "sent"
  /\ att_ret = "True"
  /\ att_sent.error = <<"file_too_large">>
  /\ att_sent.data = "none"
  /\ Len(att_log) = 1

C19_Failing ==
  \/ ~att_call.attachment.has_path
  \/ ~att_call.attachment.exists
  \/ /\ att_call.attachment.stat_ok
     /\ att_call.attachment.size <= MAX_ATTACHMENT_SIZE
     /\ ~att_call.attachment.readable

C19_Tag ==
  IF ~att_call.attachment.has_path THEN "no_local_path"
  ELSE IF ~att_call.attachment.exists THEN "file_not_found"
  ELSE "read_error"

(* C19: a push over a connected channel that accepts the send: with        *)
(* include_data, when no local path resolves, the file does not exist or   *)
(* it cannot be read, the envelope sent carries exactly the matching tag   *)
(* and no data, and one log line is appended (the log being writable);     *)
(* without include_data there is no data, no error and no log line.        *)
C19_ErrorTags ==
  (att_call.made /\ att_call.send = "sent")
    => IF att_call.include_data
         THEN C19_Failing
                => /\ att_sent.type = "attachment"
                   /\ att_sent.error = <<C19_Tag>>
                   /\ att_sent.data = "none"
                   /\ att_call.log_ok => Len(att_log) = 1
         ELSE /\ att_sent.type = "attachment"
              /\ att_sent.data = "none"
              /\ att_sent.error = <<>>
              /\ att_log = <<>>

C20_Steps ==
  (att_call' # att_call /\ att_call'.send \in {"closed", "fault"})
    => att_ret' = "False" /\ ~sc_connected'

(* C20: a call of send_attachment_data whose send fails, by the connection *)
(* being closed or by any other exception, returns False and leaves        *)
(* _connected False.                                                       *)
C20_FaultDisconnects == [][C20_Steps]_vars

(***************************************************************************)
(* The SyncClient's receive side: run()'s dispatch of inbound payloads     *)
(* (sync_client.py:222-263), _handle_history_request (265-309) and the     *)
(* coroutine _send_history_response (311-394).                             *)
(*                                                                         *)
(* An optional integer is <<>> for None (the field is absent) and <<n>>    *)
(* for n.  Fields that are present are integers.                           *)
(***************************************************************************)
(* sync_client.py:254 *)
DEFAULT_HISTORY_LIMIT == 500

HistorySince == {<<>>, <<1>>}
HistoryBefore == {<<>>, <<MaxRowid>>}
HistoryLimits == {<<>>, <<0>>, <<1>>}

(* what the channel delivers: form tells a text frame that is not JSON, a  *)
(* binary frame that is not UTF-8, a JSON value that is not an object, and *)
(* a JSON object; complete: a send_message object has handle_id and text   *)
InboundObject(type, complete, since, before, limit) ==
  [form |-> "object", type |-> type, complete |-> complete,
   since |-> since, before |-> before, limit |-> limit]

Malformed(form) ==
  [form |-> form, type |-> "none", complete |-> FALSE,
   since |-> <<>>, before |-> <<>>, limit |-> <<>>]

HistoryRequests ==
  {InboundObject("request_history", FALSE, since, before, limit) :
     since \in HistorySince, before \in HistoryBefore, limit \in HistoryLimits}

Inbound ==
  {Malformed(form) : form \in {"not_json", "not_utf8", "not_object"}}
    \cup {InboundObject("send_message", complete, <<>>, <<>>, <<>>) : complete \in BOOLEAN}
    \cup {InboundObject(type, FALSE, <<>>, <<>>, <<>>) : type \in {"ping", "other", "none"}}
    \cup HistoryRequests

ReaderDefaultLimit(limit) == IF limit = <<>> THEN 100 ELSE limit[1]

(* line 254: data.get("limit", 500) *)
RequestedLimit(limit) == IF limit = <<>> THEN DEFAULT_HISTORY_LIMIT ELSE limit[1]

(* lines 296-309: the worker request of a history request; its callback    *)
(* on_messages_ready (278-293) keeps since_rowid, before_rowid and limit   *)
HistoryRequest(since, before, limit) ==
  [operation |-> IF before # <<>> THEN "get_messages_before"
                 ELSE IF since # <<>> THEN "get_messages_since"
                 ELSE "get_latest_messages",
   rowid |-> IF before # <<>> THEN before[1]
             ELSE IF since # <<>> THEN since[1]
             ELSE 0,
   limit |-> limit,
   callback |-> [since |-> since, before |-> before, limit |-> limit]]

(* lines 237-238: json.loads(raw) and data.get("type"): a text that is not *)
(* JSON raises JSONDecodeError, which line 262 catches; bytes that are not *)
(* UTF-8 raise UnicodeDecodeError and a JSON value that is not an object   *)
(* raises AttributeError, which nothing in _handle_incoming catches        *)
DispatchRaises(p) == p.form \in {"not_utf8", "not_object"}

PongNotAwaited == "recv"

(* line 250: await: the handler waits for ws.send to complete; the        *)
(* position of run() after a ping is dispatched                            *)
PongAwaited == "pong"

Dispatched(p, effect) == [form |-> p.form, type |-> p.type, effect |-> effect]

(* _handle_incoming (lines 235-263) for the payload p, up to its first     *)
(* await; an exception it lets through ends run()'s message loop in the    *)
(* handler of lines 231-233                                                *)
Dispatch(p) ==
  IF DispatchRaises(p)
    THEN /\ sc_connected' = FALSE
         /\ rpc' = "top"
         /\ inb' = Dispatched(p, "raised")
         /\ hr' = StreamObserves(FALSE)
         /\ UNCHANGED <<history_in_progress, request_queue>>
    ELSE IF p.form = "object" /\ p.type = "ping"
    THEN /\ rpc' = PongAwaited
         /\ inb' = Dispatched(p, "pong_owed")
         /\ UNCHANGED <<sc_connected, hr, history_in_progress, request_queue>>
    ELSE IF p.form = "object" /\ p.type = "request_history" /\ ~history_in_progress
    THEN /\ Len(request_queue) < MaxQueue
         /\ history_in_progress' = TRUE
         /\ request_queue' =
               Append(request_queue,
                      HistoryRequest(p.since, p.before, RequestedLimit(p.limit)))
         /\ inb' = Dispatched(p, "submitted")
         /\ UNCHANGED <<sc_connected, rpc, hr>>
    ELSE /\ inb' = Dispatched(p, IF p.form = "object" /\ p.type = "send_message"
                                      /\ p.complete
                                   THEN "callback" ELSE "ignored")
         /\ UNCHANGED <<sc_connected, rpc, hr, history_in_progress, request_queue>>

(* lines 224-225: the next inbound payload, one of payloads, is dispatched *)
ReceiveFrom(payloads) ==
  /\ rpc = "recv"
  /\ ws = "open"
  /\ \E p \in payloads : Dispatch(p)
  /\ UNCHANGED <<store, running, thread, db, wpc, wreq, wres, cpc, spc, sreq, sret,
                 wown, rejected>>
  /\ UNCHANGED <<cursor, saved, base, app_connected, maindb, app_loop, watcher,
                 sc_running, ws, reconnect_delay, tasks, fails, sent>>
  /\ UNCHANGED <<push, start_ret, handlerVars, attachVars, out, pureVars>>

Receive == ReceiveFrom(Inbound)

(* no history request is under way in the worker or in a response *)
HistoryQuiet ==
  /\ ~history_in_progress
  /\ request_queue = <<>>
  /\ \A t \in Threads : wpc[t] \notin {"query", "callback"}
  /\ hr.pc = "idle"

(* the remote end asks for history, once the response to what it asked    *)
(* before is over                                                          *)
ReceiveHistoryRequest == HistoryQuiet /\ ReceiveFrom(HistoryRequests)

(* line 250: await self._ws.send(pong) completes or raises; fault: it      *)
(* raises something other than ConnectionClosed                            *)
PongSent ==
  /\ rpc = "pong"
  /\ \E fault \in BOOLEAN :
       IF ws = "open" /\ ~fault
         THEN /\ rpc' = "recv"
              /\ inb' = [inb EXCEPT !.effect = "pong_sent"]
              /\ UNCHANGED <<sc_connected, app_connected, hr>>
         ELSE /\ rpc' = "top"
              /\ inb' = [inb EXCEPT !.effect = "pong_lost"]
              /\ sc_connected' = FALSE
              /\ app_connected' = IF ws \in {"closed_ok", "closed_err"}
                                    THEN FALSE ELSE app_connected
              /\ hr' = StreamObserves(FALSE)
  /\ UNCHANGED <<store, workerVars>>
  /\ UNCHANGED <<cursor, saved, base, maindb, app_loop, watcher,
                 sc_running, ws, reconnect_delay, tasks, fails, sent>>
  /\ UNCHANGED <<push, start_ret, handlerVars, attachVars, out, pureVars>>

(* main.py:405-408: the thread of the event loop is started *)
LoopThreadStarted ==
  /\ rpc = "off"
  /\ rpc' = "starting"
  /\ hr' = IdleResponse
  /\ out' = <<>>
  /\ UNCHANGED <<store, workerVars>>
  /\ UNCHANGED <<cursor, saved, base, app_connected, maindb, app_loop, watcher,
                 sc_connected, sc_running, ws, reconnect_delay, tasks, fails, sent>>
  /\ UNCHANGED <<push, start_ret, handlerVars, attachVars, inb, pureVars>>

(* the loop runs a scheduled coroutine while run() is suspended in an await *)
LoopSuspended == rpc \in {"connecting", "sleep", "recv", "pong"}

(***************************************************************************)
(* on_messages_ready (sync_client.py:278-293), the callback of a history   *)
(* request, called by the worker thread t (db_worker.py:158-163): it       *)
(* schedules _send_history_response on the client's loop.  The model       *)
(* follows one such coroutine at a time.                                   *)
(***************************************************************************)
HistoryCallback(t) ==
  /\ wpc[t] = "callback"
  /\ IsHistoryRequest(wreq[t])
  /\ hr.pc = "idle"
  /\ hr' = IF app_loop = "live"
             THEN [pc |-> "scheduled", result |-> CallbackArgument(t),
                   since |-> wreq[t].callback.since,
                   before |-> wreq[t].callback.before,
                   limit |-> wreq[t].callback.limit,
                   next |-> 1, lost |-> FALSE]
             ELSE hr
  /\ out' = <<>>
  /\ wpc' = [wpc EXCEPT ![t] = "check"]
  /\ wreq' = [wreq EXCEPT ![t] = NoRequest]
  /\ wres' = [wres EXCEPT ![t] = Unset]
  /\ wown' = [wown EXCEPT ![t] = NoOwn]
  /\ UNCHANGED <<store, running, history_in_progress, request_queue, thread, db,
                 cpc, spc, sreq, sret, rejected>>
  /\ UNCHANGED appVars
  /\ UNCHANGED <<push, start_ret, handlerVars, attachVars, inb, pureVars>>

(* the attachments of the message with rowid r, in the order                *)
(* _get_attachments_for_message returns them (messages_db.py:386-423)      *)
MessageAttachments(r) == [k \in 1..(r % 3) |-> <<r, k>>]

(* lines 353-354: for msg in messages: for att in msg.attachments *)
RECURSIVE StreamOf(_)
StreamOf(rows) ==
  IF rows = <<>> THEN <<>>
  ELSE MessageAttachments(Head(rows)) \o StreamOf(Tail(rows))

HasMoreWhenNonEmpty(rows, requested_limit) == rows # <<>>

(* lines 324-327 *)
HasMore(rows, requested_limit) == Len(rows) = requested_limit

EmptyHasMoreByCount(requested_limit) == 0 = requested_limit

(* line 383: has_more of the empty response *)
EmptyHasMore(requested_limit) == FALSE

(* lines 334-343 and 380-388: the history_response payload *)
HistoryResponse(rows, since, before, requested_limit) ==
  [type |-> "history_response",
   messages |-> rows,
   has_more |-> IF rows # <<>> THEN HasMore(rows, requested_limit)
                ELSE EmptyHasMore(requested_limit),
   since_rowid |-> since,
   before_rowid |-> before]

(* what the stream records of one send_attachment_data(att, True) call:   *)
(* the attachment, and whether its envelope went out (the call returned    *)
(* True)                                                                   *)
Attempt(id, a, outcome) ==
  [type |-> "attachment", id |-> id, sent |-> outcome = "sent"]

(* lines 319-345 and 378-394: the coroutine up to the end of its first     *)
(* send; fault: ws.send raises something other than ConnectionClosed.  It  *)
(* ends at once when the client is not connected ("refused", line 321),    *)
(* and in the handler of line 393 when the send raises ("failed")          *)
HrStart ==
  /\ hr.pc = "scheduled"
  /\ LoopSuspended
  /\ \E fault \in BOOLEAN :
       IF ~sc_connected \/ ws = "none"
         THEN /\ out' = <<>>
              /\ hr' = [hr EXCEPT !.pc = "refused"]
         ELSE IF ws = "open" /\ ~fault
         THEN /\ out' = <<HistoryResponse(hr.result.rows, hr.since, hr.before, hr.limit)>>
              /\ hr' = [hr EXCEPT !.pc = IF StreamOf(hr.result.rows) # <<>>
                                           THEN "stream" ELSE "done"]
         ELSE /\ out' = <<>>
              /\ hr' = [hr EXCEPT !.pc = "failed"]
  /\ UNCHANGED <<store, workerVars, appVars>>
  /\ UNCHANGED <<push, start_ret, handlerVars, attachVars, inb, pureVars>>

(* the outcomes of send_attachment_data(att, include_data=True) *)
StreamOutcomes == {SendOutcome(a, TRUE, fault) : a \in Attachments, fault \in BOOLEAN}

StopAtFailedAttachment(outcome) == outcome # "sent"

(* lines 355-376: whether the loop over the attachments ends after a call  *)
(* of send_attachment_data with this outcome                               *)
StreamStops(outcome) == FALSE

(* lines 353-377: one turn of the loop over the attachments: the test of   *)
(* the connection, which ends the coroutine ("aborted", line 362), else    *)
(* send_attachment_data(att, include_data=True) and the sleep of 50 ms     *)
HrNext ==
  /\ hr.pc = "stream"
  /\ LoopSuspended
  /\ IF ~sc_connected \/ ws = "none"
       THEN /\ hr' = [hr EXCEPT !.pc = "aborted"]
            /\ UNCHANGED <<out, sc_connected>>
       ELSE \E outcome \in StreamOutcomes :
              /\ out' = Append(out, Attempt(StreamOf(hr.result.rows)[hr.next],
                                            StreamOf(hr.result.rows)[hr.next],
                                            outcome))
              /\ sc_connected' = IF outcome = "closed" THEN FALSE ELSE sc_connected
              /\ hr' = [hr EXCEPT
                          !.next = hr.next + 1,
                          !.pc = IF hr.next = Len(StreamOf(hr.result.rows))
                                      \/ StreamStops(outcome)
                                   THEN "done" ELSE "stream",
                          !.lost = hr.lost \/ outcome = "closed"]
  /\ UNCHANGED <<store, workerVars>>
  /\ UNCHANGED <<cursor, saved, base, app_connected, maindb, app_loop, watcher,
                 sc_running, ws, reconnect_delay, rpc, tasks, fails, sent>>
  /\ UNCHANGED <<push, start_ret, handlerVars, attachVars, inb, pureVars>>

(* the coroutine has returned *)
HrEnd ==
  /\ hr.pc \in {"done", "refused", "failed", "aborted"}
  /\ hr' = IdleResponse
  /\ out' = <<>>
  /\ UNCHANGED <<store, workerVars, appVars>>
  /\ UNCHANGED <<push, start_ret, handlerVars, attachVars, inb, pureVars>>

(***************************************************************************)
(* SpecHistory: the SyncClient's receive side with the worker, the remote  *)
(* end and the local store.                                                *)
(***************************************************************************)
NextHistory ==
  \/ WriteRecord
  \/ Start
  \/ \E t \in Threads : WConnect(t)
  \/ \E t \in Threads : WCheck(t)
  \/ \E t \in Threads : WGet(t)
  \/ \E t \in Threads : WQuery(t)
  \/ \E t \in Threads : HistoryCallback(t)
  \/ LoopThreadStarted
  \/ LoopStart
  \/ RunTop
  \/ ConnectDone
  \/ SleepDone
  \/ ChannelClose
  \/ RecvEnds
  \/ CallDisconnect
  \/ ReceiveHistoryRequest
  \/ HrStart
  \/ HrNext
  \/ HrEnd

SpecHistory == Init /\ [][NextHistory]_vars

(***************************************************************************)
(* SpecInbound: run()'s dispatch of whatever the remote end sends.         *)
(***************************************************************************)
NextInbound ==
  \/ LoopThreadStarted
  \/ LoopStart
  \/ RunTop
  \/ ConnectDone
  \/ SleepDone
  \/ ChannelClose
  \/ RecvEnds
  \/ CallDisconnect
  \/ Receive
  \/ PongSent

SpecInbound == Init /\ [][NextInbound]_vars

(***************************************************************************)
(* Claims about the history response, checked under SpecHistory.           *)
(***************************************************************************)
C21_Reader ==
  /\ hr.before # <<>>
       => /\ Len(out[1].messages) <= hr.limit
          /\ \A i \in 1..Len(out[1].messages) :
               /\ out[1].messages[i] < hr.before[1]
               /\ out[1].messages[i] \in store
               /\ i > 1 => out[1].messages[i] <= out[1].messages[i - 1]
  /\ (hr.before = <<>> /\ hr.since # <<>>)
       => /\ Len(out[1].messages) <= hr.limit
          /\ \A i \in 1..Len(out[1].messages) :
               /\ out[1].messages[i] > hr.since[1]
               /\ out[1].messages[i] \in store
               /\ i > 1 => out[1].messages[i] >= out[1].messages[i - 1]

(* C21: the history_response envelope of a request has has_more true       *)
(* exactly when the number of records it carries equals the requested      *)
(* limit and it carries some; it echoes the since_rowid and before_rowid   *)
(* that were requested; and its records are those of the requested mode:   *)
(* before a bound, at most limit records below it in descending order,     *)
(* since a bound, at most limit records above it in ascending order.       *)
C21_HasMoreAndEcho ==
  out # <<>>
    => /\ out[1].type = "history_response"
       /\ out[1].has_more
            <=> (Len(out[1].messages) = hr.limit /\ out[1].messages # <<>>)
       /\ out[1].since_rowid = hr.since
       /\ out[1].before_rowid = hr.before
       /\ C21_Reader

(* C21 witness: a request before a bound with limit 1 was answered with    *)
(* one record and has_more true.                                           *)
C21_Witness ==
  /\ out # <<>>
  /\ hr.before # <<>>
  /\ hr.limit = 1
  /\ Len(out[1].messages) = 1
  /\ out[1].has_more
  /\ out[1].before_rowid = hr.before

EmptyResponse ==
  [type |-> "history_response", messages |-> <<>>, has_more |-> FALSE,
   since_rowid |-> hr.since, before_rowid |-> hr.before]

C22_Sent ==
  (hr.result.rows = <<>> /\ hr.pc \in {"stream", "done", "aborted"})
    => /\ hr.pc = "done"
       /\ out = <<EmptyResponse>>

C22_Steps ==
  (/\ hr.pc = "scheduled" /\ hr.result.rows = <<>>
   /\ sc_connected /\ ws = "open"
   /\ hr'.pc # "scheduled")
    => hr'.pc \in {"done", "failed"}

(* C22: a response coroutine that holds an empty result, or None, and      *)
(* finds the client connected sends one history_response envelope with an  *)
(* empty list and has_more false and ends there, with no attachment turn;  *)
(* it ends otherwise only when the send itself raises.                     *)
C22_EmptyResponse == []C22_Sent /\ [][C22_Steps]_vars

(* C22 witness: the worker delivered None after a failed query, with       *)
(* limit 0 requested, and the empty response has gone out.                 *)
C22_Witness ==
  /\ hr.pc = "done"
  /\ hr.result = NoneResult
  /\ hr.limit = 0
  /\ out = <<EmptyResponse>>

C29_Order ==
  out # <<>>
    => /\ out[1].type = "history_response"
       /\ Len(out) <= 1 + Len(StreamOf(out[1].messages))
       /\ \A i \in 2..Len(out) :
            /\ out[i].type = "attachment"
            /\ out[i].id = StreamOf(out[1].messages)[i - 1]
       /\ hr.pc = "done" => Len(out) = 1 + Len(StreamOf(out[1].messages))

C29_Steps ==
  (/\ hr.pc = "stream" /\ sc_connected /\ ws # "none"
   /\ hr'.pc # "idle"
   /\ hr'.pc # "stream" \/ hr'.next # hr.next)
    => /\ Len(out') = Len(out) + 1
       /\ hr'.pc = IF Len(out') = 1 + Len(StreamOf(out[1].messages))
                     THEN "done" ELSE "stream"

(* C29: what a response puts on the channel is the history_response        *)
(* envelope first, then the attachments of its records, one turn each, in  *)
(* record order and then attachment order; a turn taken while the client   *)
(* is connected attempts the next attachment and, whatever becomes of that *)
(* attempt, the stream goes on to the following one until all have been    *)
(* attempted.                                                              *)
C29_StreamOrder == []C29_Order /\ [][C29_Steps]_vars

(* C29 witness: a stream of three attachments has run to its end although  *)
(* the first transfer failed.                                              *)
C29_Witness ==
  /\ hr.pc = "done"
  /\ Len(out) = 4
  /\ ~out[2].sent
  /\ out[3].sent
  /\ out[4].sent

C30_Steps ==
  /\ (hr.pc = "stream" /\ hr.lost) => Len(out') <= Len(out)
  /\ (hr.pc = "scheduled" /\ ~sc_connected /\ hr'.pc # "scheduled") => out' = <<>>

(* C30: once the client has been seen not connected during the attachment  *)
(* stream of a response, no further attachment of that response is         *)
(* attempted; and a response that starts while the client is not connected *)
(* sends nothing.                                                          *)
C30_StreamAborts == [][C30_Steps]_vars

(***************************************************************************)
(* Claims about the dispatch of inbound payloads, checked under            *)
(* SpecInbound.                                                            *)
(***************************************************************************)
C23_Mode(p) ==
  IF p.since # <<>> /\ p.before = <<>> THEN {"get_messages_since"}
  ELSE IF p.before # <<>> /\ p.since = <<>> THEN {"get_messages_before"}
  ELSE IF p.before = <<>> /\ p.since = <<>> THEN {"get_latest_messages"}
  ELSE HistoryOps

C23_Steps ==
  \A p \in HistoryRequests :
    (ReceiveFrom({p}) /\ ~history_in_progress)
      => /\ Len(request_queue') = Len(request_queue) + 1
         /\ SubSeq(request_queue', 1, Len(request_queue)) = request_queue
         /\ LET request == request_queue'[Len(request_queue')]
            IN /\ request.operation \in C23_Mode(p)
               /\ request.operation = "get_messages_since"
                    => request.rowid = p.since[1]
               /\ request.operation = "get_messages_before"
                    => request.rowid = p.before[1]
               /\ request.limit = IF p.limit = <<>> THEN 500 ELSE p.limit[1]

(* C23: the dispatch of a request_history that is accepted puts exactly    *)
(* one request on the worker's queue: get_messages_since with the bound    *)
(* when only since_rowid is given, get_messages_before with the bound when *)
(* only before_rowid is given, get_latest_messages when neither is, one of *)
(* the three when both are; its limit is the limit of the request, or 500  *)
(* when the request has none.                                              *)
C23_OneReaderOperation == [][C23_Steps]_vars

(* C23 witness: a request with both bounds and no limit has been           *)
(* submitted as one get_messages_before with limit 500.                    *)
C23_Witness ==
  /\ inb.effect = "submitted"
  /\ Len(request_queue) = 1
  /\ request_queue[1].operation = "get_messages_before"
  /\ request_queue[1].callback.since # <<>>
  /\ request_queue[1].limit = 500

C25_Ignorable ==
  {p \in Inbound : \/ p.form # "object"
                   \/ p.type \in {"other", "none"}}

C25_Steps ==
  \A p \in C25_Ignorable :
    ReceiveFrom({p})
      => /\ sc_connected' = sc_connected
         /\ rpc' = "recv"
         /\ inb'.effect = "ignored"
         /\ UNCHANGED <<request_queue, history_in_progress, out, hr, ws>>

(* C25: the dispatch of a payload that is not valid JSON (a text that does *)
(* not parse, bytes that are not UTF-8) or that has no recognized type (an *)
(* object with another type or none, a JSON value that is not an object)   *)
(* sends nothing, invokes no callback, submits nothing, leaves the client  *)
(* connected and leaves run() receiving.                                   *)
C25_BadPayloadIgnored == [][C25_Steps]_vars

C26_Answered ==
  rpc = "recv" => inb.effect # "pong_owed"

C26_Steps ==
  /\ (inb.effect = "pong_owed" /\ inb' # inb)
       => inb'.effect \in {"pong_sent", "pong_lost"}
  /\ (inb.effect = "pong_owed" /\ inb' # inb /\ ws = "open" /\ rpc' = "recv")
       => inb'.effect = "pong_sent"
  /\ (inb.effect = "pong_sent" /\ inb' # inb)
       => inb'.effect \notin {"pong_sent", "pong_lost"}

(* C26: after a ping is dispatched run() dispatches nothing until the pong *)
(* has been sent or its send has raised; the pong is sent once; and run()  *)
(* is back receiving on an open channel only with the pong sent.           *)
C26_PongBeforeNext == []C26_Answered /\ [][C26_Steps]_vars

(* C26 witness: a ping has been answered and run() is receiving again.     *)
C26_Witness ==
  /\ inb.type = "ping"
  /\ inb.effect = "pong_sent"
  /\ rpc = "recv"
  /\ ws = "open"
  /\ sc_connected

(***************************************************************************)
(* MessagesDatabase._get_messages (messages_db.py:268-384) on a store      *)
(* with its table chat_message_join.  st: the rowids of table message;     *)
(* chats[r]: how many rows of chat_message_join have message_id r.  A      *)
(* result is the sequence of the rowids of the Message objects returned.   *)
(***************************************************************************)
(* LEFT JOIN chat_message_join cmj ON m.ROWID = cmj.message_id: a message  *)
(* gives one row for each of its chats, and one row when it has none       *)
JoinRows(chats, r) == IF chats[r] = 0 THEN 1 ELSE chats[r]

RECURSIVE Joined(_, _)
Joined(rowids, chats) ==
  IF rowids = <<>> THEN <<>>
  ELSE [k \in 1..JoinRows(chats, Head(rowids)) |-> Head(rowids)]
         \o Joined(Tail(rowids), chats)

(* lines 275-384; since_rowid and before_rowid are <<>> for None *)
GetMessages(conn, st, chats, since_rowid, before_rowid, limit) ==
  IF ~conn THEN <<>>
  ELSE IF before_rowid # <<>>
    THEN Limit(Joined(Descending({r \in st : r < before_rowid[1]}), chats), limit)
  ELSE IF since_rowid # <<>>
    THEN Limit(Joined(Ascending({r \in st : r > since_rowid[1]}), chats), limit)
  ELSE Limit(Joined(Descending(st), chats), limit)

(* the calls: a store, a bound P and a count N *)
ReaderRowids == 1..(MaxRowid + 1)

ReaderCalls ==
  {[op |-> "call", st |-> st, chats |-> chats, p |-> p, n |-> n, result |-> <<>>] :
     st \in SUBSET ReaderRowids, chats \in [ReaderRowids -> 0..MaxChats],
     p \in 0..(MaxRowid + 2), n \in 0..(MaxRowid + 1)}

(* get_messages_since (lines 256-258) *)
ReadSince ==
  /\ rd.op = "call"
  /\ rd' = [rd EXCEPT !.op = "since",
                       !.result = GetMessages(TRUE, rd.st, rd.chats, <<rd.p>>, <<>>, rd.n)]
  /\ UNCHANGED <<store, workerVars, appVars>>
  /\ UNCHANGED <<push, start_ret, handlerVars, attachVars, historyVars, et>>

(* get_messages_before (lines 260-262) *)
ReadBefore ==
  /\ rd.op = "call"
  /\ rd' = [rd EXCEPT !.op = "before",
                       !.result = GetMessages(TRUE, rd.st, rd.chats, <<>>, <<rd.p>>, rd.n)]
  /\ UNCHANGED <<store, workerVars, appVars>>
  /\ UNCHANGED <<push, start_ret, handlerVars, attachVars, historyVars, et>>

(* get_latest_messages (lines 264-266) *)
ReadLatest ==
  /\ rd.op = "call"
  /\ rd' = [rd EXCEPT !.op = "latest",
                       !.result = GetMessages(TRUE, rd.st, rd.chats, <<>>, <<>>, rd.n)]
  /\ UNCHANGED <<store, workerVars, appVars>>
  /\ UNCHANGED <<push, start_ret, handlerVars, attachVars, historyVars, et>>

InitReader ==
  /\ store = {}
  /\ WorkerInit
  /\ AppInit
  /\ push = NoPush
  /\ start_ret = NoStart
  /\ HandlerInit
  /\ AttachInit
  /\ HistoryInit
  /\ et = NoExtract
  /\ rd \in ReaderCalls

NextReader ==
  \/ ReadSince
  \/ ReadBefore
  \/ ReadLatest

SpecReader == InitReader /\ [][NextReader]_vars

(* the n lowest and the n highest elements of a set *)
RECURSIVE Lowest(_, _)
Lowest(S, n) ==
  IF n = 0 \/ S = {} THEN {} ELSE {Min(S)} \cup Lowest(S \ {Min(S)}, n - 1)

RECURSIVE Highest(_, _)
Highest(S, n) ==
  IF n = 0 \/ S = {} THEN {} ELSE {Max(S)} \cup Highest(S \ {Max(S)}, n - 1)

(* C24: since(P, N) returns records with strictly increasing positions,    *)
(* all above P, at most N, and they are the N lowest positions above P in  *)
(* the store; before(P, N) returns records with strictly decreasing        *)
(* positions, all below P, at most N, the N highest positions below P; no  *)
(* record is in a result twice.                                            *)
C24_ReaderOrder ==
  /\ rd.op = "since"
       => /\ Len(rd.result) <= rd.n
          /\ \A i \in 1..Len(rd.result) :
               /\ rd.result[i] > rd.p
               /\ i > 1 => rd.result[i] > rd.result[i - 1]
          /\ Range(rd.result) = Lowest({r \in rd.st : r > rd.p}, rd.n)
  /\ rd.op = "before"
       => /\ Len(rd.result) <= rd.n
          /\ \A i \in 1..Len(rd.result) :
               /\ rd.result[i] < rd.p
               /\ i > 1 => rd.result[i] < rd.result[i - 1]
          /\ Range(rd.result) = Highest({r \in rd.st : r < rd.p}, rd.n)
  /\ rd.op \in {"since", "before"}
       => \A i, j \in 1..Len(rd.result) : i # j => rd.result[i] # rd.result[j]

(***************************************************************************)
(* Text extraction from the attributedBody column (messages_db.py).        *)
(*                                                                         *)
(* A blob is a sequence of bytes (0..255), a text is a sequence of code    *)
(* points, and an optional text is <<>> (None) or <<text>>.  Positions     *)
(* are counted from 0 as in the code; blob[i + 1] is the byte at           *)
(* position i.                                                             *)
(***************************************************************************)

(* the marker searched for by line 181: b"\x01+" *)
Marker == <<1, 43>>

(* U+FFFC, the object replacement character removed by line 218 *)
PLACEHOLDER == 65532

(* The byte strings blobs are put together from: the marker, the length    *)
(* bytes 0, 1 and 4, a space, the letters N and S, the extended-length     *)
(* prefix 0x81 (also a lone continuation byte) and the UTF-8 encoding of   *)
(* U+FFFC (whose first byte, as a length prefix, is an unknown one).       *)
Pieces ==
  {Marker, <<0>>, <<1>>, <<4>>, <<32>>, <<78>>, <<83>>, <<129>>, <<239, 191, 188>>}

RECURSIVE BlobsOf(_)
BlobsOf(n) ==
  IF n = 0 THEN {<<>>}
  ELSE LET B == BlobsOf(n - 1) IN B \cup {b \o p : b \in B, p \in Pieces}

(* the values of the attributedBody column: up to MaxBlob pieces *)
Blobs == BlobsOf(MaxBlob)

(* bytes.decode("utf-8") (lines 135, 151, 216): ok is FALSE where the call *)
(* raises UnicodeDecodeError.  width is the number of bytes of the         *)
(* character that starts the byte string (0 when no well-formed character  *)
(* starts it) and point is its code point.                                 *)
RECURSIVE Utf8Decode(_)
Utf8Decode(bs) ==
  IF bs = <<>> THEN [ok |-> TRUE, chars |-> <<>>]
  ELSE LET b == bs[1]
           cont(i) == bs[i] \in 128..191
           width ==
             IF b <= 127 THEN 1
             ELSE IF b \in 194..223
               THEN IF Len(bs) >= 2 /\ cont(2) THEN 2 ELSE 0
             ELSE IF b \in 224..239
               THEN IF /\ Len(bs) >= 3
                       /\ bs[2] \in (IF b = 224 THEN 160..191
                                     ELSE IF b = 237 THEN 128..159 ELSE 128..191)
                       /\ cont(3)
                    THEN 3 ELSE 0
             ELSE IF b \in 240..244
               THEN IF /\ Len(bs) >= 4
                       /\ bs[2] \in (IF b = 240 THEN 144..191
                                     ELSE IF b = 244 THEN 128..143 ELSE 128..191)
                       /\ cont(3)
                       /\ cont(4)
                    THEN 4 ELSE 0
             ELSE 0
           point ==
             IF width = 1 THEN b
             ELSE IF width = 2 THEN (b - 192) * 64 + (bs[2] - 128)
             ELSE IF width = 3
               THEN (b - 224) * 4096 + (bs[2] - 128) * 64 + (bs[3] - 128)
             ELSE (b - 240) * 262144 + (bs[2] - 128) * 4096
                    + (bs[3] - 128) * 64 + (bs[4] - 128)
       IN IF width = 0 THEN [ok |-> FALSE, chars |-> <<>>]
          ELSE LET rest == Utf8Decode(SubSeq(bs, width + 1, Len(bs)))
               IN IF rest.ok
                    THEN [ok |-> TRUE, chars |-> <<point>> \o rest.chars]
                    ELSE rest

(* str.strip() (lines 158, 219, 220): whitespace is the set of characters *)
(* str.isspace holds of                                                    *)
Strip(text) ==
  LET whitespace ==
        (9..13) \cup (28..32) \cup {133, 160, 5760} \cup (8192..8202)
          \cup {8232, 8233, 8239, 8287, 12288}
      keep == {i \in 1..Len(text) : text[i] \notin whitespace}
  IN IF keep = {} THEN <<>> ELSE SubSeq(text, Min(keep), Max(keep))

(* str.isalnum (lines 139, 154) on the characters the pieces decode to:    *)
(* the one character above 127 among them, U+FFFC, is not alphanumeric     *)
IsAlnum(c) == c \in (48..57) \cup (65..90) \cup (97..122)

(* lines 133-152: the run of bytes taken as a candidate replaces best_text *)
(* when it decodes, is longer, has an alphanumeric character and is none   *)
(* of the skipped texts ("NS..." , "streamtyped", "...__kIM..."); a run    *)
(* closed inside the loop is tested against all three of them, the run     *)
(* open at the end of the blob only against the first                      *)
Candidate(best_text, run, inside) ==
  LET d == Utf8Decode(run)
      candidate == d.chars
      starts_with(prefix) ==
        Len(candidate) >= Len(prefix) /\ SubSeq(candidate, 1, Len(prefix)) = prefix
      contains(part) ==
        \E i \in 0..(Len(candidate) - Len(part)) :
           SubSeq(candidate, i + 1, i + Len(part)) = part
  IN IF /\ d.ok
        /\ Len(candidate) > Len(best_text)
        /\ \E i \in 1..Len(candidate) : IsAlnum(candidate[i])
        /\ ~starts_with(<<78, 83>>)
        /\ inside =>
             /\ candidate # <<115, 116, 114, 101, 97, 109, 116, 121, 112, 101, 100>>
             /\ ~contains(<<95, 95, 107, 73, 77>>)
     THEN candidate
     ELSE best_text

(* the loop of lines 118-147 from position i on; current_start is -1 for   *)
(* None                                                                    *)
RECURSIVE Scan(_, _, _, _)
Scan(blob, i, best_text, current_start) ==
  IF i = Len(blob)
    THEN [best_text |-> best_text, current_start |-> current_start]
    ELSE LET byte == blob[i + 1]
             is_printable_ascii == byte \in 32..126
             is_utf8_start == byte \in 192..247
             is_utf8_cont == byte \in 128..191
         IN IF is_printable_ascii \/ is_utf8_start
              THEN Scan(blob, i + 1, best_text,
                        IF current_start = -1 THEN i ELSE current_start)
            ELSE IF is_utf8_cont /\ current_start # -1
              THEN Scan(blob, i + 1, best_text, current_start)
            ELSE IF current_start # -1
              THEN Scan(blob, i + 1,
                        Candidate(best_text, SubSeq(blob, current_start + 1, i), TRUE),
                        -1)
            ELSE Scan(blob, i + 1, best_text, -1)

(* _extract_fallback (lines 110-161) *)
ExtractFallback(blob) ==
  IF blob = <<>> THEN <<>>
  ELSE LET s == Scan(blob, 0, <<>>, -1)
           best_text ==
             IF s.current_start # -1
               THEN Candidate(s.best_text,
                              SubSeq(blob, s.current_start + 1, Len(blob)), FALSE)
               ELSE s.best_text
       IN IF Len(best_text) > 1 THEN <<Strip(best_text)>> ELSE <<>>

(* blob.find(b"\x01+") (line 181): the first position of the marker, -1    *)
(* when the blob has none                                                  *)
Find(blob) ==
  LET at == {i \in 0..(Len(blob) - 2) : SubSeq(blob, i + 1, i + 2) = Marker}
  IN IF at = {} THEN -1 ELSE Min(at)

(* text.replace("\ufffc", "") (line 218) *)
KeepPlaceholder(text) == text
RemovePlaceholder(text) == SelectSeq(text, LAMBDA c : c # PLACEHOLDER)

(* extract_text_from_attributed_body (lines 164-229).  No statement of the *)
(* try block raises anything but the UnicodeDecodeError caught at line     *)
(* 221, so the handler of line 228 is never entered.                       *)
ExtractText(blob) ==
  IF blob = <<>> THEN <<>>
  ELSE LET marker_idx == Find(blob)
           pos == marker_idx + 2
       IN IF marker_idx = -1 THEN ExtractFallback(blob)
          ELSE IF pos >= Len(blob) THEN ExtractFallback(blob)
          ELSE LET length_byte == blob[pos + 1]
               IN IF length_byte = 129 /\ pos + 2 >= Len(blob)
                    THEN ExtractFallback(blob)
                  ELSE IF length_byte # 129 /\ length_byte >= 128
                    THEN ExtractFallback(blob)
                  ELSE LET text_length ==
                             IF length_byte = 129
                               THEN blob[pos + 2] + blob[pos + 3] * 256
                               ELSE length_byte
                           text_start ==
                             IF length_byte = 129 THEN pos + 3 ELSE pos + 1
                           text_end ==
                             IF text_start + text_length > Len(blob)
                               THEN Len(blob)
                               ELSE text_start + text_length
                           d == Utf8Decode(SubSeq(blob, text_start + 1, text_end))
                           text == RemovePlaceholder(d.chars)
                       IN IF d.ok /\ Strip(text) # <<>>
                            THEN <<Strip(text)>>
                            ELSE <<>>

(* a call about to be made *)
ExtractCalls == {[op |-> "call", blob |-> b, result |-> <<>>] : b \in Blobs}

(* extract_text_from_attributed_body(blob) returns *)
ExtractTextCall ==
  /\ et.op = "call"
  /\ et' = [et EXCEPT !.op = "extract", !.result = ExtractText(et.blob)]
  /\ UNCHANGED <<store, workerVars, appVars>>
  /\ UNCHANGED <<push, start_ret, handlerVars, attachVars, historyVars, rd>>

(* _extract_fallback(blob) returns *)
ExtractFallbackCall ==
  /\ et.op = "call"
  /\ et' = [et EXCEPT !.op = "fallback", !.result = ExtractFallback(et.blob)]
  /\ UNCHANGED <<store, workerVars, appVars>>
  /\ UNCHANGED <<push, start_ret, handlerVars, attachVars, historyVars, rd>>

InitExtract ==
  /\ store = {}
  /\ WorkerInit
  /\ AppInit
  /\ push = NoPush
  /\ start_ret = NoStart
  /\ HandlerInit
  /\ AttachInit
  /\ HistoryInit
  /\ rd = NoRead
  /\ et \in ExtractCalls

NextExtract ==
  \/ ExtractTextCall
  \/ ExtractFallbackCall

SpecExtract == InitExtract /\ [][NextExtract]_vars

(***************************************************************************)
(* Claims about the text extraction.                                       *)
(***************************************************************************)

(* the blob has the marker, a valid length prefix right after its first    *)
(* occurrence (one byte below 0x80, or 0x81 and a 2-byte little-endian     *)
(* length) and at least as many bytes after the prefix as it declares      *)
WellFormed(blob) ==
  LET i == Find(blob)
  IN /\ i # -1
     /\ \/ /\ Len(blob) >= i + 3
           /\ blob[i + 3] < 128
           /\ Len(blob) >= i + 3 + blob[i + 3]
        \/ /\ Len(blob) >= i + 5
           /\ blob[i + 3] = 129
           /\ Len(blob) >= i + 5 + blob[i + 4] + 256 * blob[i + 5]

(* the slice of the declared length of a well-formed blob *)
DeclaredSlice(blob) ==
  LET i == Find(blob)
  IN IF blob[i + 3] < 128
       THEN SubSeq(blob, i + 4, i + 3 + blob[i + 3])
       ELSE SubSeq(blob, i + 6, i + 5 + blob[i + 4] + 256 * blob[i + 5])

(* the decoding of a slice without U+FFFC and without the whitespace at    *)
(* its ends                                                                *)
CleanedText(slice) ==
  Strip(SelectSeq(Utf8Decode(slice).chars, LAMBDA c : c # 65532))

(* C27 as stated: for every blob with the marker, a valid length prefix    *)
(* and at least the declared number of payload bytes, the extraction       *)
(* returns exactly the UTF-8 decoding of the declared slice with U+FFFC    *)
(* removed and the whitespace at its ends trimmed.                         *)
C27_ExactText ==
  /\ et.op = "extract"
  /\ WellFormed(et.blob)
  /\ Utf8Decode(DeclaredSlice(et.blob)).ok
  => et.result = <<CleanedText(DeclaredSlice(et.blob))>>

(* C27 amended: for every such blob the extraction returns that cleaned    *)
(* and trimmed text when it is not empty, and None when it is empty (a     *)
(* message that holds nothing but attachments or white space).             *)
C27_TextOrNone ==
  /\ et.op = "extract"
  /\ WellFormed(et.blob)
  /\ Utf8Decode(DeclaredSlice(et.blob)).ok
  => et.result = IF CleanedText(DeclaredSlice(et.blob)) = <<>>
                   THEN <<>>
                   ELSE <<CleanedText(DeclaredSlice(et.blob))>>

(* a well-formed blob whose slice holds U+FFFC and something else has been *)
(* extracted to a text                                                     *)
C27_Witness ==
  /\ et.op = "extract"
  /\ WellFormed(et.blob)
  /\ Utf8Decode(DeclaredSlice(et.blob)).ok
  /\ PLACEHOLDER \in Range(Utf8Decode(DeclaredSlice(et.blob)).chars)
  /\ et.result # <<>>

(* C28: the extraction never raises, and whenever the marker is absent,    *)
(* the length prefix is malformed (unknown prefix byte, truncated extended *)
(* form, or a declared length that runs past the end of the blob) or the   *)
(* declared slice fails to decode as UTF-8, its result is the result of    *)
(* the fallback scan of the same blob.  (A call always ends with a result  *)
(* in the model: the function has no way to raise.)                        *)
C28_FallsBack ==
  /\ et.op = "extract"
  /\ \/ ~WellFormed(et.blob)
     \/ ~Utf8Decode(DeclaredSlice(et.blob)).ok
  => et.result = ExtractFallback(et.blob)

(***************************************************************************)
(* Claims about the Sync Client's disconnect(), under Spec.                *)
(***************************************************************************)

(* C36: once disconnect() has completed, the Sync Client is not connected  *)
(* and holds no open channel until run() is started again, whatever the    *)
(* run loop was awaiting (a connect attempt, the backoff sleep, the next   *)
(* payload) when disconnect() ran.  self._running is FALSE exactly from    *)
(* the completion of disconnect() (or from construction) to the next start *)
(* of run().                                                               *)
C36_ClosedAfterDisconnect ==
  ~sc_running => ~sc_connected /\ ws # "open"

(* The event-loop thread keeps running: a step of run() or a scheduled     *)
(* coroutine that can be taken is taken in the end.  Nothing obliges the   *)
(* remote end to close the channel or the user to click.                   *)
LoopFairness ==
  /\ WF_vars(LoopStart)
  /\ WF_vars(RunTop)
  /\ WF_vars(ConnectDone)
  /\ WF_vars(SleepDone)
  /\ WF_vars(RecvEnds)
  /\ WF_vars(RunSendMessages)
  /\ WF_vars(RunDisconnect)

SpecLive == Spec /\ LoopFairness

(* disconnect() has run since run() began, and run() has not returned *)
C31_Stopping == ~sc_running /\ rpc \notin {"off", "starting"}

(* C31: after disconnect() is called on a running Sync Client, run()       *)
(* terminates: whatever it was doing (receiving, sleeping in backoff, or   *)
(* awaiting a connect attempt) it begins no further connect attempt, and   *)
(* it returns in the end.                                                  *)
C31_RunTerminates ==
  /\ [][C31_Stopping /\ rpc # "connecting" => rpc' # "connecting"]_vars
  /\ C31_Stopping ~> (rpc = "off")

(***************************************************************************)
(* The DatabaseWorker under fair scheduling: a worker thread that can take *)
(* a step takes it in the end, a submitter that holds an accepted request  *)
(* puts it (queue.Queue() is unbounded and put never waits, so the put is  *)
(* strongly fair: the bound of the model's queue does not starve it), and  *)
(* join() returns.  Nothing obliges the callers to call.                   *)
(***************************************************************************)
WorkerFairness ==
  /\ \A t \in Threads :
       /\ WF_vars(WConnect(t))
       /\ WF_vars(WCheck(t))
       /\ WF_vars(WGet(t))
       /\ WF_vars(WQuery(t))
       /\ WF_vars(WCallback(t))
  /\ \A s \in Submitters : SF_vars(PutRequest(s))
  /\ WF_vars(JoinReturn)

SpecWorkerLive == SpecWorker /\ WorkerFairness

(* a request waits in the queue; a request is in its callback *)
RequestWaiting == \E i \in 1..Len(request_queue) : request_queue[i] # Sentinel
RequestServed == \E t \in Threads : wpc[t] = "callback"

(* C32: after any sequence of start and stop calls that ends with start()  *)
(* returning True, a request submitted afterwards is processed and its     *)
(* callback invoked in the end; a sentinel or a set flag left over from an *)
(* earlier run does not prevent it.  The worker's _running is TRUE only    *)
(* when the last call that took effect was a start() that returned True.   *)
C32_ServedAfterRestart ==
  (running /\ start_ret.value = "True" /\ RequestWaiting)
    ~> (~running \/ RequestServed)

(* C33: every history request accepted while the worker is running, and    *)
(* not stopped afterwards, has its callback invoked in the end, and the    *)
(* history-in-progress flag is cleared in the end so that a later history  *)
(* request can be accepted.                                                *)
C33_HistoryCompletes ==
  /\ (running /\ start_ret.value = "True" /\ HistoryQueued # {})
       ~> (~running \/ HistoryExecuting # {})
  /\ (running /\ start_ret.value = "True" /\ HistoryQueued # {})
       ~> (~running \/ ~history_in_progress)

(***************************************************************************)
(* One handler of the change watcher under fair scheduling: time passes    *)
(* and the loop runs a timer whose deadline has come.  Nothing obliges     *)
(* the store's files to change.                                            *)
(***************************************************************************)
NextHandler ==
  \/ WatcherStart
  \/ \E event \in FsEvents : OnModified(event)
  \/ TimerFires
  \/ Tick

SpecHandlerLive ==
  Init /\ [][NextHandler]_vars /\ WF_vars(TimerFires) /\ WF_vars(Tick)

(* C34: every qualifying filesystem event is followed in the end by an     *)
(* invocation of the change callback, also an event that arrives while an  *)
(* earlier timer is pending or after an earlier timer has fired.  calls is *)
(* 0 after an event that begins a burst until the callback is invoked; the *)
(* events considered leave the timer room to elapse before the clock's     *)
(* horizon.                                                                *)
C34_CallbackFollowsEvent ==
  (watcher # "none" /\ last_event >= 0 /\ last_event + DEBOUNCE_TICKS <= MaxTime
     /\ calls = 0)
    ~> (calls > 0)

(***************************************************************************)
(* A history request that arrives while the response to an earlier one is  *)
(* under way (sync_client.py).  The worker clears the history-in-progress  *)
(* flag before it calls the callback (db_worker.py:152-163), so the flag   *)
(* is clear all through the earlier response's coroutine.  The later       *)
(* response's coroutine is kept in tasks, with the position it has         *)
(* reached in its stream (next, 0 before its first send); the loop runs it *)
(* while run() and the earlier coroutine are suspended in their awaits.    *)
(***************************************************************************)
(* the requests of the remote end here: for the latest message *)
LatestRequests ==
  {p \in HistoryRequests : p.since = <<>> /\ p.before = <<>> /\ p.limit = <<1>>}

ReceiveEarlierRequest == HistoryQuiet /\ tasks = <<>> /\ ReceiveFrom(LatestRequests)

(* the model follows one later response per earlier one: no later request *)
(* once a second history_response envelope is on the channel               *)
ReceiveLaterRequest ==
  /\ hr.pc \in {"scheduled", "stream"}
  /\ tasks = <<>>
  /\ Cardinality({i \in 1..Len(out) : out[i].type = "history_response"}) <= 1
  /\ ReceiveFrom(LatestRequests)

(* on_messages_ready (lines 278-293) for the later request *)
LaterCallback(t) ==
  /\ wpc[t] = "callback"
  /\ IsHistoryRequest(wreq[t])
  /\ hr.pc # "idle"
  /\ Len(tasks) < MaxTasks
  /\ tasks' = Scheduled([kind |-> "history_response",
                         messages |-> CallbackArgument(t).rows,
                         since |-> wreq[t].callback.since,
                         before |-> wreq[t].callback.before,
                         limit |-> wreq[t].callback.limit,
                         next |-> 0])
  /\ wpc' = [wpc EXCEPT ![t] = "check"]
  /\ wreq' = [wreq EXCEPT ![t] = NoRequest]
  /\ wres' = [wres EXCEPT ![t] = Unset]
  /\ wown' = [wown EXCEPT ![t] = NoOwn]
  /\ UNCHANGED <<store, running, history_in_progress, request_queue, thread, db,
                 cpc, spc, sreq, sret, rejected>>
  /\ UNCHANGED <<cursor, saved, base, app_connected, maindb, app_loop, watcher,
                 sc_connected, sc_running, ws, reconnect_delay, rpc, fails, sent>>
  /\ UNCHANGED auxVars

(* _send_history_response (lines 319-345 and 378-394) of the later         *)
(* request, up to the end of its first send; the loop runs coroutines in   *)
(* the order they were scheduled                                           *)
LaterStart ==
  /\ tasks # <<>>
  /\ Head(tasks).kind = "history_response"
  /\ Head(tasks).next = 0
  /\ hr.pc # "scheduled"
  /\ LoopSuspended
  /\ \E fault \in BOOLEAN :
       IF sc_connected /\ ws = "open" /\ ~fault
         THEN /\ out' = Append(out, HistoryResponse(Head(tasks).messages,
                                                    Head(tasks).since,
                                                    Head(tasks).before,
                                                    Head(tasks).limit))
              /\ tasks' = IF StreamOf(Head(tasks).messages) # <<>>
                            THEN <<[Head(tasks) EXCEPT !.next = 1]>> \o Tail(tasks)
                            ELSE Tail(tasks)
         ELSE /\ tasks' = Tail(tasks)
              /\ UNCHANGED out
  /\ UNCHANGED <<store, workerVars>>
  /\ UNCHANGED <<cursor, saved, base, app_connected, maindb, app_loop, watcher,
                 sc_connected, sc_running, ws, reconnect_delay, rpc, fails, sent>>
  /\ UNCHANGED <<push, start_ret, handlerVars, attachVars, hr, inb, pureVars>>

(* lines 353-377: one turn of the later coroutine's loop over its          *)
(* attachments                                                             *)
LaterNext ==
  /\ tasks # <<>>
  /\ Head(tasks).kind = "history_response"
  /\ Head(tasks).next > 0
  /\ LoopSuspended
  /\ IF ~sc_connected \/ ws = "none"
       THEN /\ tasks' = Tail(tasks)
            /\ UNCHANGED <<out, sc_connected>>
       ELSE \E outcome \in StreamOutcomes :
              /\ out' = Append(out, Attempt(StreamOf(Head(tasks).messages)[Head(tasks).next],
                                            StreamOf(Head(tasks).messages)[Head(tasks).next],
                                            outcome))
              /\ sc_connected' = IF outcome = "closed" THEN FALSE ELSE sc_connected
              /\ tasks' = IF Head(tasks).next = Len(StreamOf(Head(tasks).messages))
                            THEN Tail(tasks)
                            ELSE <<[Head(tasks) EXCEPT !.next = @ + 1]>> \o Tail(tasks)
  /\ hr' = StreamObserves(sc_connected')
  /\ UNCHANGED <<store, workerVars>>
  /\ UNCHANGED <<cursor, saved, base, app_connected, maindb, app_loop, watcher,
                 sc_running, ws, reconnect_delay, rpc, fails, sent>>
  /\ UNCHANGED <<push, start_ret, handlerVars, attachVars, inb, pureVars>>

NextOverlap ==
  \/ WriteRecord
  \/ Start
  \/ \E t \in Threads : WConnect(t)
  \/ \E t \in Threads : WCheck(t)
  \/ \E t \in Threads : WGet(t)
  \/ \E t \in Threads : WQuery(t)
  \/ \E t \in Threads : HistoryCallback(t)
  \/ \E t \in Threads : LaterCallback(t)
  \/ LoopThreadStarted
  \/ LoopStart
  \/ RunTop
  \/ ConnectDone
  \/ SleepDone
  \/ ReceiveEarlierRequest
  \/ ReceiveLaterRequest
  \/ HrStart
  \/ HrNext
  \/ HrEnd
  \/ LaterStart
  \/ LaterNext

SpecOverlap == Init /\ [][NextOverlap]_vars

(* C35: the responses to two successively accepted request_history         *)
(* commands do not interleave on the channel: no history_response envelope *)
(* is sent while the stream of an earlier response still has attachments   *)
(* to send and has not been aborted.                                       *)
C35_NoInterleaving ==
  [][hr.pc = "stream" /\ hr'.pc = "stream" /\ Len(out') > Len(out)
       => out'[Len(out')].type # "history_response"]_vars

(***************************************************************************)
(* Claims about the driver, under Spec.                                    *)
(***************************************************************************)

(* C37: when the driver starts the change watcher during connect, the      *)
(* handler always has the event loop set, so that no qualifying filesystem *)
(* event invokes the change callback directly on the notification thread,  *)
(* however the start-up of the event-loop thread interleaves with the      *)
(* watcher's start.                                                        *)
C37_HandlerHasLoop == watcher # "noloop"

(* a record beyond the cursor is among those the next fetch returns        *)
StillFetched(r) == r \in Range(GetMessagesSince(TRUE, store', cursor', CHANGE_FETCH_LIMIT))

C38_Steps ==
  /\ (OnDbChange /\ ~app_connected) =>
        /\ UNCHANGED <<cursor, saved, tasks, sent>>
        /\ \A r \in store : r > cursor => StillFetched(r)
  /\ (WriteRecord /\ ~app_connected) =>
        /\ cursor' = cursor
        /\ \A r \in store' \ store : StillFetched(r)
  /\ (ConnectDone /\ ~app_connected /\ app_connected') =>
        /\ cursor' = cursor
        /\ \A r \in store : r > cursor => StillFetched(r)
  /\ (~app_connected /\ cursor' # cursor) => (DoConnect /\ cursor = 0)

EnvelopeSent == att_call.made /\ att_call.send = "sent"

CarriesData == att_sent.data # "none"

CarriesError == att_sent.error # <<>>

(* C39: every attachment envelope sent carries at most one of the fields   *)
(* data and error, never both; when it was pushed with include_data it     *)
(* carries exactly one of them; and the call appended a line to the        *)
(* failed-attachments log if and only if the envelope carries error.       *)
C39_DataXorErrorAndLog ==
  EnvelopeSent
    => /\ ~(CarriesData /\ CarriesError)
       /\ att_call.include_data => (CarriesData \/ CarriesError)
       /\ att_log # <<>> <=> CarriesError

(* C39, amended: as above for data and error; a line is appended to the    *)
(* log only when the envelope carries error, and then exactly one line     *)
(* when the log can be written and none when writing it fails (the failure *)
(* is caught inside log_failed_attachment and the envelope is still sent). *)
C39_DataXorErrorLogWritable ==
  EnvelopeSent
    => /\ ~(CarriesData /\ CarriesError)
       /\ att_call.include_data => (CarriesData \/ CarriesError)
       /\ att_log # <<>> => CarriesError
       /\ CarriesError => Len(att_log) = IF att_call.log_ok THEN 1 ELSE 0

(* C39 witness: an attachment without local path was pushed with           *)
(* include_data while the log could not be written: the envelope went out  *)
(* with error no_local_path and no data, and no line was appended.         *)
C39_Witness ==
  /\ EnvelopeSent
  /\ att_call.include_data
  /\ ~att_call.attachment.has_path
  /\ ~att_call.log_ok
  /\ att_ret = "True"
  /\ att_sent.error = <<"no_local_path">>
  /\ att_sent.data = "none"
  /\ att_log = <<>>

====
